---- MODULE Spec2Model ----
(***************************************************************************)
(* A model of the smart-fridge core: the per-user inventory store          *)
(* (inventory/inventory_manager.py), the multi-zone camera capture         *)
(* (camera/multi_camera_manager.py), the door sensor and its callback      *)
(* lists (hardware/door_sensor.py), the face-profile store                 *)
(* (ai/facial_recognition.py), the image comparator                        *)
(* (ai/image_comparator.py), the controller that ties them together        *)
(* (core/smart_fridge_controller.py, ui/avatar_manager.py) and the family  *)
(* invitations (core/family_manager.py).  Each component has its own       *)
(* specification over the shared variables: SpecInv and SpecUsers, SpecCam,*)
(* SpecDoor and SpecCallbacks, SpecFace and SpecProfiles, SpecCmp, SpecIo, *)
(* SpecCycle, SpecSession and SpecEnroll, SpecFam.                         *)
(***************************************************************************)
EXTENDS Integers, Sequences, FiniteSets, TLC

VARIABLES
    clock,           \* what datetime.now() returns
    \* InventoryManager
    inventories,     \* self.inventories: str(user_id) -> item_name -> record
    inventory_file,  \* contents of inventory.json, or NoFile
    invCall,         \* the InventoryManager call that has just run: its arguments, and the dict before it
    \* MultiCameraManager
    cameras,         \* self.cameras: the registered zone names, in insertion order
    is_active,       \* self.cameras[zone]['is_active']
    camPc,           \* where capture_all_simultaneously is: idle, starting, joining, returned
    exclude_names,   \* capture_all_simultaneously's exclude_names
    results,         \* the results dict of the current call (the object that is returned)
    threads,         \* the threads list of the current call, as zone names
    cursor,          \* position of the start loop (in cameras) or of the join loop (in threads)
    worker,          \* per zone: the capture_thread of the current call
    orphans,         \* zones with a capture_thread of an earlier call still running
    timeouts,        \* joins of the current call that ended by timeout
    \* DoorSensorManager and the controller's door callbacks
    simulation_mode, \* self.simulation_mode (not GPIO_AVAILABLE)
    is_open,         \* self.is_open
    last_event_time, \* self.last_event_time
    time,            \* time.time(), counted in units of debounce_time from the start of the program
    pin,             \* GPIO.input(door_pin): the level of the door switch
    edge_pending,    \* an edge on the pin whose callback has not run yet
    session_start,   \* the controller's session_start
    door_log,        \* the callbacks invoked so far, in order
    \* FacialRecognitionManager
    tolerance,       \* self.tolerance
    known_users,     \* self.known_users: the profiles, in dict (insertion) order
    encodings_file,  \* contents of face_encodings.pkl, or NoFile
    faceCall,        \* the FacialRecognitionManager call that has just run
    \* ImageComparator
    cmpCall,         \* the ImageComparator call that has just run: its arguments and what it returned
    \* The disk
    inventory_disk,  \* inventory.json on a disk that can fail: missing, written or torn
    encodings_disk,  \* face_encodings.pkl on a disk that can fail: missing, written or torn
    ioCall,          \* how the last store operation on a failing disk ended
    \* DoorSensorManager's callback lists
    on_door_open_callbacks,   \* self.on_door_open_callbacks, in registration order
    on_door_close_callbacks,  \* self.on_door_close_callbacks, in registration order
    cbCall,          \* the simulate_door_open/close call that has just run: what it invoked
    \* SmartFridgeController
    current_user,    \* self.current_user: the id of the User object, 0 for None
    ctl_before_images,  \* self.before_images: zone name -> frame
    ctl_after_images,   \* self.after_images: zone name -> frame
    object_detector, \* self.object_detector: TRUE when a detector was loaded, FALSE for None
    avatar_emotion,  \* type of self.avatar.current_state.emotion: "enum" or "str"
    last_detected,   \* what the most recent detect_user call returned
    ctlCall,         \* the controller call that has just run
    \* FamilyManager and its tables
    invitations,     \* the family_invitation table, in insertion order
    family_members,  \* the family_member table, in insertion order
    invited_as,      \* per token: the role argument of the invite_member call that made it
    utcnow,          \* what datetime.utcnow() returns
    famCall          \* the FamilyManager call that has just run

invVars == <<inventories, inventory_file, invCall>>
camVars == <<cameras, is_active, camPc, exclude_names, results, threads, cursor,
             worker, orphans, timeouts>>
doorVars == <<simulation_mode, is_open, last_event_time, time, pin, edge_pending,
              session_start, door_log>>
faceVars == <<tolerance, known_users, encodings_file, faceCall>>

cmpVars == <<cmpCall>>
ioVars == <<inventory_disk, encodings_disk, ioCall>>

cbVars == <<on_door_open_callbacks, on_door_close_callbacks, cbCall>>
ctlVars == <<current_user, ctl_before_images, ctl_after_images, object_detector,
             avatar_emotion, last_detected, ctlCall>>
famVars == <<invitations, family_members, invited_as, utcnow, famCall>>

vars == <<clock, invVars, camVars, doorVars, faceVars, cmpVars, ioVars,
          cbVars, ctlVars, famVars>>

----------------------------------------------------------------------------
(* Bounds *)

MaxClock == 1      \* datetime.now() takes the values 0..MaxClock
MaxQty   == 3      \* calls that would take the stored quantities above MaxQty in total are not issued
MaxBatch == 3      \* longest detection batch

NoFile == "no_file"
NoCall == [op |-> "none"]

ItemNames == {"apple", "milk"}
\* user_id arguments: main.py passes current_user.id (an int), the controller
\* passes user.id or 0; a str of the same digits addresses the same key.
UserIds == { [type |-> "int", n |-> 1, s |-> ""],
             [type |-> "str", n |-> 0, s |-> "1"],
             [type |-> "int", n |-> 0, s |-> ""] }
Quantities == 1..2

\* A detection is a dict with a 'class' key; batches are lists of detections.
Detections == [class : ItemNames]
Batches == UNION { [1..n -> Detections] : n \in 0..MaxBatch }

----------------------------------------------------------------------------
(* dict helpers *)

Put(d, k, v) == [x \in (DOMAIN d) \cup {k} |-> IF x = k THEN v ELSE d[x]]
Del(d, k) == [x \in (DOMAIN d) \ {k} |-> d[x]]
EmptyDict == [x \in {} |-> 0]

\* A user_id used as the dict key without the conversion: the int 1 and
\* the str "1" are different keys
str_keeps_type(user_id) ==
    IF user_id.type = "int" THEN "int " \o ToString(user_id.n) ELSE user_id.s

\* str(user_id)
str(user_id) == IF user_id.type = "int" THEN ToString(user_id.n) ELSE user_id.s

----------------------------------------------------------------------------
(* InventoryManager, as functions of the inventories dict *)

\* load_inventory at construction: a missing file gives {}
load_inventory(file) == IF file = NoFile THEN EmptyDict ELSE file

\* save_inventory: json.dump of the whole dict
save_inventory(inv) == inv

\* expiration_database: days an item keeps, for the items in play
expiration_database == [apple |-> 14, milk |-> 7]

\* get_default_expiry(item_name) at time t: now + the item's days
get_default_expiry(item_name, t) == t + expiration_database[item_name]

\* new_expiry_date arguments of update_expiry_date
ExpiryDates == {3, 30}

\* add_item with "=" for "+=" on an existing record
add_item_overwrite(inv, user_id, item_name, quantity, t) ==
    LET uid  == str(user_id)
        inv1 == IF uid \notin DOMAIN inv THEN Put(inv, uid, EmptyDict) ELSE inv
    IN  IF item_name \notin DOMAIN inv1[uid]
        THEN Put(inv1, uid, Put(inv1[uid], item_name,
                 [quantity |-> quantity,
                  expiry_date |-> get_default_expiry(item_name, t),
                  last_detected |-> t]))
        ELSE Put(inv1, uid, Put(inv1[uid], item_name,
                 [inv1[uid][item_name] EXCEPT !.quantity = quantity,
                                              !.last_detected = t]))

\* add_item(user_id, item_name, quantity) at time t: the dict afterwards
add_item(inv, user_id, item_name, quantity, t) ==
    LET uid  == str(user_id)
        inv1 == IF uid \notin DOMAIN inv THEN Put(inv, uid, EmptyDict) ELSE inv
    IN  IF item_name \notin DOMAIN inv1[uid]
        THEN Put(inv1, uid, Put(inv1[uid], item_name,
                 [quantity |-> quantity,
                  expiry_date |-> get_default_expiry(item_name, t),
                  last_detected |-> t]))
        ELSE Put(inv1, uid, Put(inv1[uid], item_name,
                 [inv1[uid][item_name] EXCEPT !.quantity = @ + quantity,
                                              !.last_detected = t]))

\* remove_item with "< 0" for "<= 0": a record is kept at quantity zero
remove_item_keeps_zero(inv, user_id, item_name, quantity) ==
    LET uid == str(user_id)
    IN  IF uid \in DOMAIN inv /\ item_name \in DOMAIN inv[uid]
        THEN LET q == inv[uid][item_name].quantity - quantity
             IN  IF q < 0
                 THEN Put(inv, uid, Del(inv[uid], item_name))
                 ELSE Put(inv, uid, Put(inv[uid], item_name,
                          [inv[uid][item_name] EXCEPT !.quantity = q]))
        ELSE inv

\* remove_item(user_id, item_name, quantity): the dict afterwards
remove_item(inv, user_id, item_name, quantity) ==
    LET uid == str(user_id)
    IN  IF uid \in DOMAIN inv /\ item_name \in DOMAIN inv[uid]
        THEN LET q == inv[uid][item_name].quantity - quantity
             IN  IF q <= 0
                 THEN Put(inv, uid, Del(inv[uid], item_name))
                 ELSE Put(inv, uid, Put(inv[uid], item_name,
                          [inv[uid][item_name] EXCEPT !.quantity = q]))
        ELSE inv

\* clear_inventory(user_id)
clear_inventory(inv, user_id) ==
    LET uid == str(user_id)
    IN  IF uid \in DOMAIN inv THEN Put(inv, uid, EmptyDict) ELSE inv

\* update_expiry_date(user_id, item_name, new_expiry_date)
update_expiry_date(inv, user_id, item_name, new_expiry_date) ==
    LET uid == str(user_id)
    IN  IF uid \in DOMAIN inv /\ item_name \in DOMAIN inv[uid]
        THEN Put(inv, uid, Put(inv[uid], item_name,
                 [inv[uid][item_name] EXCEPT !.expiry_date = new_expiry_date]))
        ELSE inv

\* detect_one without the last_detected assignment of line 102
detect_one_stale(inv, user_id, item, current_items, t) ==
    LET uid == str(user_id)
    IN  IF item.class \notin current_items
        THEN add_item(inv, user_id, item.class, 1, t)
        ELSE Put(inv, uid, Put(inv[uid], item.class,
                 [inv[uid][item.class] EXCEPT !.quantity = @ + 1]))

\* One pass of update_from_detection's first loop over a detection
detect_one(inv, user_id, item, current_items, t) ==
    LET uid == str(user_id)
    IN  IF item.class \notin current_items
        THEN add_item(inv, user_id, item.class, 1, t)
        ELSE Put(inv, uid, Put(inv[uid], item.class,
                 [inv[uid][item.class] EXCEPT !.quantity = @ + 1,
                                              !.last_detected = t]))

RECURSIVE detect_loop(_, _, _, _, _)
detect_loop(inv, user_id, detected_items, current_items, t) ==
    IF detected_items = <<>> THEN inv
    ELSE detect_loop(detect_one(inv, user_id, Head(detected_items), current_items, t),
                     user_id, Tail(detected_items), current_items, t)

\* The second loop: remove_item(user_id, item) for each item of the set
RECURSIVE remove_loop(_, _, _)
remove_loop(inv, user_id, items) ==
    IF items = {} THEN inv
    ELSE LET item == CHOOSE i \in items : TRUE
         IN  remove_loop(remove_item(inv, user_id, item, 1), user_id, items \ {item})

update_from_detection(inv, user_id, detected_items, t) ==
    LET uid  == str(user_id)
        inv1 == IF uid \notin DOMAIN inv THEN Put(inv, uid, EmptyDict) ELSE inv
        current_items == DOMAIN inv1[uid]
        detected_item_names == { detected_items[i].class : i \in DOMAIN detected_items }
        inv2 == detect_loop(inv1, user_id, detected_items, current_items, t)
    IN  remove_loop(inv2, user_id, current_items \ detected_item_names)

----------------------------------------------------------------------------
(* Inventory actions *)

RecordsOf(inv, uid) == IF uid \in DOMAIN inv THEN inv[uid] ELSE EmptyDict

RECURSIVE SumQuantity(_)
SumQuantity(recs) ==
    IF DOMAIN recs = {} THEN 0
    ELSE LET k == CHOOSE x \in DOMAIN recs : TRUE
         IN  recs[k].quantity + SumQuantity(Del(recs, k))

RECURSIVE TotalQuantity(_)
TotalQuantity(inv) ==
    IF DOMAIN inv = {} THEN 0
    ELSE LET u == CHOOSE x \in DOMAIN inv : TRUE
         IN  SumQuantity(inv[u]) + TotalQuantity(Del(inv, u))

QtyOk(inv) == TotalQuantity(inv) <= MaxQty

Tick ==
    /\ clock < MaxClock
    /\ clock' = clock + 1

\* The call returns to its caller; the next call can be made.
ReturnInv ==
    /\ invCall # NoCall
    /\ invCall' = NoCall
    /\ UNCHANGED <<inventories, inventory_file>>

AddItem(user_id, item_name, quantity) ==
    LET new == add_item(inventories, user_id, item_name, quantity, clock)
    IN  /\ invCall = NoCall
        /\ inventories' = new
        /\ QtyOk(inventories')
        /\ inventory_file' = save_inventory(inventories')
        /\ invCall' = [op |-> "add_item", uid |-> str(user_id), item |-> item_name,
                       quantity |-> quantity, batch |-> <<>>, user_id |-> user_id,
                       old |-> inventories, at |-> clock]

RemoveItem(user_id, item_name, quantity) ==
    LET new == remove_item(inventories, user_id, item_name, quantity)
        uid == str(user_id)
    IN  /\ invCall = NoCall
        /\ inventories' = new
        /\ inventory_file' =
              IF uid \in DOMAIN inventories /\ item_name \in DOMAIN inventories[uid]
              THEN save_inventory(new) ELSE inventory_file
        /\ invCall' = [op |-> "remove_item", uid |-> uid, item |-> item_name,
                       quantity |-> quantity, batch |-> <<>>, user_id |-> user_id,
                       old |-> inventories, at |-> clock]

ClearInventory(user_id) ==
    LET new == clear_inventory(inventories, user_id)
        uid == str(user_id)
    IN  /\ invCall = NoCall
        /\ inventories' = new
        /\ inventory_file' =
              IF uid \in DOMAIN inventories THEN save_inventory(new) ELSE inventory_file
        /\ invCall' = [op |-> "clear_inventory", uid |-> uid, item |-> "",
                       quantity |-> 0, batch |-> <<>>, user_id |-> user_id,
                       old |-> inventories, at |-> clock]

UpdateFromDetection(user_id, detected_items) ==
    LET new == update_from_detection(inventories, user_id, detected_items, clock)
    IN  /\ invCall = NoCall
        /\ inventories' = new
        /\ QtyOk(inventories')
        /\ inventory_file' = save_inventory(inventories')
        /\ invCall' = [op |-> "update_from_detection", uid |-> str(user_id), item |-> "",
                       quantity |-> 0, batch |-> detected_items, user_id |-> user_id,
                       old |-> inventories, at |-> clock]

UpdateExpiryDate(user_id, item_name, new_expiry_date) ==
    LET new == update_expiry_date(inventories, user_id, item_name, new_expiry_date)
        uid == str(user_id)
    IN  /\ invCall = NoCall
        /\ inventories' = new
        /\ inventory_file' =
              IF uid \in DOMAIN inventories /\ item_name \in DOMAIN inventories[uid]
              THEN save_inventory(new) ELSE inventory_file
        /\ invCall' = [op |-> "update_expiry_date", uid |-> uid, item |-> item_name,
                       quantity |-> new_expiry_date, batch |-> <<>>,
                       user_id |-> user_id, old |-> inventories, at |-> clock]

InitInv ==
    /\ inventory_file = NoFile
    /\ inventories = load_inventory(NoFile)
    /\ invCall = NoCall

exceptInv == <<camVars, doorVars, faceVars, cmpVars, ioVars,
    cbVars, ctlVars, famVars>>

NextInv ==
    \/ Tick /\ invCall = NoCall /\ UNCHANGED <<invVars, exceptInv>>
    \/ ReturnInv /\ UNCHANGED <<clock, exceptInv>>
    \/ \E u \in UserIds, i \in ItemNames, q \in Quantities :
          AddItem(u, i, q) /\ UNCHANGED <<clock, exceptInv>>
    \/ \E u \in UserIds, i \in ItemNames, q \in Quantities :
          RemoveItem(u, i, q) /\ UNCHANGED <<clock, exceptInv>>
    \/ \E u \in UserIds : ClearInventory(u) /\ UNCHANGED <<clock, exceptInv>>
    \/ \E u \in UserIds, b \in Batches :
          UpdateFromDetection(u, b) /\ UNCHANGED <<clock, exceptInv>>

\* Every mutation of the inventory, update_expiry_date included, at one time
NextUsers ==
    \/ ReturnInv /\ UNCHANGED <<clock, exceptInv>>
    \/ \E u \in UserIds, i \in ItemNames, q \in Quantities :
          AddItem(u, i, q) /\ UNCHANGED <<clock, exceptInv>>
    \/ \E u \in UserIds, i \in ItemNames, q \in Quantities :
          RemoveItem(u, i, q) /\ UNCHANGED <<clock, exceptInv>>
    \/ \E u \in UserIds : ClearInventory(u) /\ UNCHANGED <<clock, exceptInv>>
    \/ \E u \in UserIds, b \in Batches :
          UpdateFromDetection(u, b) /\ UNCHANGED <<clock, exceptInv>>
    \/ /\ invCall = NoCall
       /\ \E u \in UserIds, i \in ItemNames, e \in ExpiryDates :
             UpdateExpiryDate(u, i, e) /\ UNCHANGED <<clock, exceptInv>>

----------------------------------------------------------------------------
(* MultiCameraManager *)

\* CameraZone values in play, in the order _setup_cameras registers them: the
\* two zones of the desktop layout and the next shelf zone of the production layout.
ZoneOrder == <<"external_face", "shelf_1_left", "shelf_1_right">>
Zones == { ZoneOrder[i] : i \in DOMAIN ZoneOrder }

\* exclude_zones arguments: the default (None) and the interior snapshots' list
ExcludeLists == { <<>>, <<"external_face">> }

\* The image read from a zone's camera, and the None capture_single returns instead
Frame(zone_name) == [zone |-> zone_name]
NoFrame == [zone |-> "None"]

\* How one capture_single goes: the camera cannot be opened, read() returns
\* no frame, read() raises, or read() returns a frame.
Outcomes == {"not_open", "no_frame", "read_raises", "frame"}

Range(seq) == { seq[i] : i \in DOMAIN seq }

\* add_camera(zone, source)
AddCamera(zone_name) ==
    /\ camPc = "idle"
    /\ Len(cameras) < Len(ZoneOrder)
    /\ zone_name = ZoneOrder[Len(cameras) + 1]
    /\ zone_name \notin Range(cameras)
    /\ cameras' = Append(cameras, zone_name)
    /\ is_active' = Put(is_active, zone_name, FALSE)
    /\ worker' = Put(worker, zone_name, "none")
    /\ UNCHANGED <<camPc, exclude_names, results, threads, cursor, orphans, timeouts>>

\* capture_single(zone) for a registered zone: the frame returned (or None)
\* and the zone's is_active afterwards.
capture_single(zone_name, active, outcome) ==
    IF ~active /\ outcome = "not_open"
    THEN [frame |-> NoFrame, is_active |-> FALSE]                  \* initialize_camera failed
    ELSE IF outcome = "frame"
         THEN [frame |-> Frame(zone_name), is_active |-> TRUE]
         ELSE [frame |-> NoFrame, is_active |-> TRUE]              \* not ret, or except

\* "not_open" is an outcome of initialize_camera, which runs only when the
\* camera is not active yet.
Possible(zone_name, outcome) == outcome = "not_open" => ~is_active[zone_name]

\* capture_thread with line 192's test left out
capture_thread_stores_none(res, zone_name, frame) == Put(res, zone_name, frame)

\* capture_thread(zone_name), given what capture_single returned: results afterwards
capture_thread(res, zone_name, frame) ==
    IF frame # NoFrame THEN Put(res, zone_name, frame) ELSE res

\* capture_all_simultaneously is called: lines 183-187, and the lock is taken.
\* A capture_thread of the previous call that is still running keeps the
\* previous results dict; it is an orphan from here on.
CaptureAllCall(exclude_zones) ==
    /\ camPc = "idle"
    /\ camPc' = "starting"
    /\ exclude_names' = Range(exclude_zones)
    /\ results' = EmptyDict
    /\ threads' = <<>>
    /\ cursor' = 1
    /\ timeouts' = 0
    /\ orphans' = orphans \cup { z \in Range(cameras) : worker[z] = "running" }
    /\ worker' = [z \in Range(cameras) |-> "none"]
    /\ UNCHANGED <<cameras, is_active>>

\* One pass of the loop of lines 196-200
StartThread ==
    /\ camPc = "starting"
    /\ cursor <= Len(cameras)
    /\ LET zone_name == cameras[cursor]
       IN  IF zone_name \notin exclude_names
           THEN /\ worker' = [worker EXCEPT ![zone_name] = "running"]
                /\ threads' = Append(threads, zone_name)
           ELSE UNCHANGED <<worker, threads>>
    /\ cursor' = cursor + 1
    /\ UNCHANGED <<cameras, is_active, camPc, exclude_names, results, orphans, timeouts>>

\* The start loop is over; the join loop begins.
StartJoining ==
    /\ camPc = "starting"
    /\ cursor > Len(cameras)
    /\ camPc' = "joining"
    /\ cursor' = 1
    /\ UNCHANGED <<cameras, is_active, exclude_names, results, threads, worker,
                   orphans, timeouts>>

\* thread.join(timeout=5.0) returns because the thread has finished
JoinFinished ==
    /\ camPc = "joining"
    /\ cursor <= Len(threads)
    /\ worker[threads[cursor]] \in {"done_frame", "done_none"}
    /\ cursor' = cursor + 1
    /\ UNCHANGED <<cameras, is_active, camPc, exclude_names, results, threads,
                   worker, orphans, timeouts>>

\* thread.join() without its timeout: it returns only when the thread has finished
JoinForever ==
    /\ FALSE
    /\ UNCHANGED camVars

\* thread.join(timeout=5.0) returns because 5 seconds have passed
JoinTimeout ==
    /\ camPc = "joining"
    /\ cursor <= Len(threads)
    /\ worker[threads[cursor]] = "running"
    /\ cursor' = cursor + 1
    /\ timeouts' = timeouts + 1
    /\ UNCHANGED <<cameras, is_active, camPc, exclude_names, results, threads,
                   worker, orphans>>

\* The join loop is over: the lock is released and results is returned.
CaptureAllReturn ==
    /\ camPc = "joining"
    /\ cursor > Len(threads)
    /\ camPc' = "returned"
    /\ UNCHANGED <<cameras, is_active, exclude_names, results, threads, cursor,
                   worker, orphans, timeouts>>

\* The caller is done with the mapping.
CaptureAllDone ==
    /\ camPc = "returned"
    /\ camPc' = "idle"
    /\ UNCHANGED <<cameras, is_active, exclude_names, results, threads, cursor,
                   worker, orphans, timeouts>>

\* A capture_thread of the current call runs to its end.
WorkerFinish(zone_name, outcome) ==
    /\ zone_name \in Range(cameras)
    /\ worker[zone_name] = "running"
    /\ Possible(zone_name, outcome)
    /\ LET got == capture_single(zone_name, is_active[zone_name], outcome)
       IN  /\ is_active' = [is_active EXCEPT ![zone_name] = got.is_active]
           /\ results' = capture_thread(results, zone_name, got.frame)
           /\ worker' = [worker EXCEPT ![zone_name] =
                            IF got.frame # NoFrame THEN "done_frame" ELSE "done_none"]
    /\ UNCHANGED <<cameras, camPc, exclude_names, threads, cursor, orphans, timeouts>>

\* A capture_thread of an earlier call runs to its end: it writes to the
\* results dict of that call.
OrphanFinish(zone_name, outcome) ==
    /\ zone_name \in orphans
    /\ Possible(zone_name, outcome)
    /\ is_active' = [is_active EXCEPT ![zone_name] =
                        capture_single(zone_name, is_active[zone_name], outcome).is_active]
    /\ orphans' = orphans \ {zone_name}
    /\ UNCHANGED <<cameras, camPc, exclude_names, results, threads, cursor, worker, timeouts>>

InitCam ==
    /\ cameras = <<>>
    /\ is_active = EmptyDict
    /\ camPc = "idle"
    /\ exclude_names = {}
    /\ results = EmptyDict
    /\ threads = <<>>
    /\ cursor = 1
    /\ worker = EmptyDict
    /\ orphans = {}
    /\ timeouts = 0

\* The steps of the thread that called capture_all_simultaneously
Aggregator ==
    \/ StartThread
    \/ StartJoining
    \/ JoinFinished
    \/ JoinTimeout
    \/ CaptureAllReturn

exceptCam == <<clock, invVars, doorVars, faceVars, cmpVars, ioVars,
    cbVars, ctlVars, famVars>>

NextCam ==
    \/ \E z \in Zones : AddCamera(z) /\ UNCHANGED exceptCam
    \/ \E x \in ExcludeLists : CaptureAllCall(x) /\ UNCHANGED exceptCam
    \/ StartThread /\ UNCHANGED exceptCam
    \/ StartJoining /\ UNCHANGED exceptCam
    \/ JoinFinished /\ UNCHANGED exceptCam
    \/ JoinTimeout /\ UNCHANGED exceptCam
    \/ CaptureAllReturn /\ UNCHANGED exceptCam
    \/ CaptureAllDone /\ UNCHANGED exceptCam
    \/ \E z \in Zones, o \in Outcomes : WorkerFinish(z, o) /\ UNCHANGED exceptCam
    \/ \E z \in Zones, o \in Outcomes : OrphanFinish(z, o) /\ UNCHANGED exceptCam

----------------------------------------------------------------------------
(* DoorSensorManager, with the controller's on_door_open and on_door_close
   registered as its callbacks (SmartFridgeController._setup_door_callbacks) *)

MaxTime   == 2     \* time.time() advances at most MaxTime times
MaxEvents == 4     \* door events stop once MaxEvents callbacks have been invoked

\* debounce_time, the unit in which time is counted
debounce_time == 1

LOW  == 0
HIGH == 1

NoSession == -1    \* session_start = None

\* time.time(): the epoch lies more than debounce_time before the program starts
time_time == time + debounce_time

\* SmartFridgeController.on_door_open(timestamp), called by _trigger_door_open
on_door_open ==
    /\ session_start' = time
    /\ door_log' = Append(door_log, [cb |-> "on_door_open", raised |-> FALSE])

\* SmartFridgeController.on_door_close(timestamp), called by _trigger_door_close:
\* timestamp - self.session_start raises when session_start is None, and the
\* sensor's except clause swallows it.
on_door_close ==
    /\ session_start' = session_start
    /\ door_log' = Append(door_log, [cb |-> "on_door_close",
                                     raised |-> (session_start = NoSession)])

\* simulate_door_open()
SimulateDoorOpen ==
    /\ Len(door_log) < MaxEvents
    /\ IF ~is_open
       THEN /\ is_open' = TRUE
            /\ on_door_open
       ELSE UNCHANGED <<is_open, session_start, door_log>>
    /\ UNCHANGED <<simulation_mode, last_event_time, time, pin, edge_pending>>

\* simulate_door_close()
SimulateDoorClose ==
    /\ Len(door_log) < MaxEvents
    /\ IF is_open
       THEN /\ is_open' = FALSE
            /\ on_door_close
       ELSE UNCHANGED <<is_open, session_start, door_log>>
    /\ UNCHANGED <<simulation_mode, last_event_time, time, pin, edge_pending>>

\* The door moves: the switch changes level.  With GPIO.BOTH the library
\* queues a callback for the edge unless its bouncetime filter drops it.
PinChange(seen) ==
    /\ ~simulation_mode
    /\ pin' = IF pin = LOW THEN HIGH ELSE LOW
    /\ edge_pending' = (edge_pending \/ seen)
    /\ UNCHANGED <<simulation_mode, is_open, last_event_time, time, session_start, door_log>>

\* _handle_door_event(channel), run for a queued edge
HandleDoorEvent ==
    /\ ~simulation_mode
    /\ edge_pending
    /\ Len(door_log) < MaxEvents
    /\ edge_pending' = FALSE
    /\ LET current_time == time_time
           door_state == pin
       IN  IF current_time - last_event_time < debounce_time
           THEN UNCHANGED <<is_open, last_event_time, session_start, door_log>>
           ELSE /\ last_event_time' = current_time
                /\ IF door_state = LOW /\ ~is_open
                   THEN /\ is_open' = TRUE
                        /\ on_door_open
                   ELSE IF door_state = HIGH /\ is_open
                        THEN /\ is_open' = FALSE
                             /\ on_door_close
                        ELSE UNCHANGED <<is_open, session_start, door_log>>
    /\ UNCHANGED <<simulation_mode, time, pin>>

\* get_door_state()
GetDoorState ==
    /\ is_open' = IF ~simulation_mode THEN (pin = LOW) ELSE is_open
    /\ UNCHANGED <<simulation_mode, last_event_time, time, pin, edge_pending,
                   session_start, door_log>>

TickTime ==
    /\ time < MaxTime
    /\ time' = time + 1
    /\ UNCHANGED <<simulation_mode, is_open, last_event_time, pin, edge_pending,
                   session_start, door_log>>

\* DoorSensorManager.__init__ and SmartFridgeController.__init__; with GPIO
\* the door may be open or closed when the program starts.
InitDoor ==
    /\ simulation_mode \in BOOLEAN
    /\ is_open = FALSE
    /\ last_event_time = 0
    /\ time = 0
    /\ pin \in IF simulation_mode THEN {HIGH} ELSE {LOW, HIGH}
    /\ edge_pending = FALSE
    /\ session_start = NoSession
    /\ door_log = <<>>

exceptDoor == <<clock, invVars, camVars, faceVars, cmpVars, ioVars,
    cbVars, ctlVars, famVars>>

NextDoor ==
    \/ SimulateDoorOpen /\ UNCHANGED exceptDoor
    \/ SimulateDoorClose /\ UNCHANGED exceptDoor
    \/ \E seen \in BOOLEAN : PinChange(seen) /\ UNCHANGED exceptDoor
    \/ HandleDoorEvent /\ UNCHANGED exceptDoor
    \/ GetDoorState /\ UNCHANGED exceptDoor
    \/ TickTime /\ UNCHANGED exceptDoor

----------------------------------------------------------------------------
(* FacialRecognitionManager *)

MaxEncodings  == 2   \* calls that would store more than MaxEncodings encodings in total are not issued
MaxRecognized == 1   \* recognitions stop once times_recognized sums to MaxRecognized

\* Distances and confidences are counted in tenths: One is 1.0, the initial
\* best_distance; DefaultTolerance is the constructor's default 0.6.
One == 10
DefaultTolerance == 6
Tolerances == {DefaultTolerance, 12}

\* A face encoding is a point on a line; an image is the list of the faces
\* face_locations finds in it, in the detector's order, and face_encodings
\* gives one encoding per location.
Faces == {0, 6, 12}
Images == {<<>>, <<0>>, <<6>>, <<12>>, <<6, 0>>, <<0, 12>>}
FaceUserIds == {1, 2}

\* face_recognition.face_distance([known_encoding], test_encoding)[0]
face_distance(known_encoding, test_encoding) ==
    IF known_encoding >= test_encoding THEN known_encoding - test_encoding
    ELSE test_encoding - known_encoding

NoMatch == [matched |-> FALSE, id |-> 0, confidence |-> 0]

\* Position of user_id's profile in the dict, 0 when it has none
IndexOf(users, user_id) ==
    IF \E k \in DOMAIN users : users[k].id = user_id
    THEN CHOOSE k \in DOMAIN users : users[k].id = user_id
    ELSE 0

\* self.known_users[user_id] = user: a new key goes last, an existing key keeps its place
SetUser(users, user) ==
    IF IndexOf(users, user.id) = 0 THEN Append(users, user)
    ELSE [users EXCEPT ![IndexOf(users, user.id)] = user]

\* del self.known_users[user_id]
DelUser(users, user_id) ==
    LET k == IndexOf(users, user_id)
    IN  [i \in 1..(Len(users) - 1) |-> IF i < k THEN users[i] ELSE users[i + 1]]

\* save_encodings: pickle.dump of the whole dict
save_encodings(users) == users

\* enroll_user that keeps the last detected face instead of the first
enroll_user_last_face(users, user_id, image, t) ==
    IF Len(image) = 0 THEN [ok |-> FALSE, users |-> users]
    ELSE [ok |-> TRUE,
          users |-> SetUser(users, [id |-> user_id,
                                    face_encodings |-> <<image[Len(image)]>>,
                                    last_seen |-> t, times_recognized |-> 0,
                                    preferences |-> EmptyDict])]

\* enroll_user that keeps the encodings of all the faces it detects
enroll_user_all_faces(users, user_id, image, t) ==
    IF Len(image) = 0 THEN [ok |-> FALSE, users |-> users]
    ELSE [ok |-> TRUE,
          users |-> SetUser(users, [id |-> user_id,
                                    face_encodings |-> image,
                                    last_seen |-> t, times_recognized |-> 0,
                                    preferences |-> EmptyDict])]

\* enroll_user(user_id, name, image) at time t: the return value and the dict afterwards
enroll_user(users, user_id, image, t) ==
    IF Len(image) = 0 THEN [ok |-> FALSE, users |-> users]
    ELSE [ok |-> TRUE,
          users |-> SetUser(users, [id |-> user_id,
                                    face_encodings |-> <<image[1]>>,
                                    last_seen |-> t, times_recognized |-> 0,
                                    preferences |-> EmptyDict])]

\* add_face_sample without the test of line 133: an unknown user_id gets a
\* profile made of the sample
add_face_sample_creates(users, user_id, image) ==
    IF Len(image) = 0 THEN [ok |-> FALSE, users |-> users]
    ELSE IF IndexOf(users, user_id) = 0
         THEN [ok |-> TRUE,
               users |-> Append(users, [id |-> user_id,
                                        face_encodings |-> <<image[1]>>,
                                        last_seen |-> 0, times_recognized |-> 0,
                                        preferences |-> EmptyDict])]
         ELSE [ok |-> TRUE,
               users |-> [users EXCEPT ![IndexOf(users, user_id)].face_encodings =
                                           Append(@, image[1])]]

\* add_face_sample(user_id, image)
add_face_sample(users, user_id, image) ==
    IF IndexOf(users, user_id) = 0 \/ Len(image) = 0
    THEN [ok |-> FALSE, users |-> users]
    ELSE [ok |-> TRUE,
          users |-> [users EXCEPT ![IndexOf(users, user_id)].face_encodings =
                                      Append(@, image[1])]]

\* remove_user(user_id)
remove_user(users, user_id) ==
    IF IndexOf(users, user_id) # 0
    THEN [ok |-> TRUE, users |-> DelUser(users, user_id)]
    ELSE [ok |-> FALSE, users |-> users]

\* Line 204: distance < best_distance and distance <= self.tolerance
better(distance, best_distance, tol) ==
    distance < best_distance /\ distance <= tol

\* The inner loop of lines 200-206 over one profile's encodings; best is
\* (best_distance, best_match_user), the user given by its position, 0 for None.
RECURSIVE scan_encodings(_, _, _, _, _)
scan_encodings(encodings, owner, test_encoding, tol, best) ==
    IF encodings = <<>> THEN best
    ELSE LET distance == face_distance(Head(encodings), test_encoding)
         IN  scan_encodings(Tail(encodings), owner, test_encoding, tol,
                 IF better(distance, best.distance, tol)
                 THEN [distance |-> distance, user |-> owner]
                 ELSE best)

\* The outer loop of lines 199-206, from profile k on
RECURSIVE scan_users(_, _, _, _, _)
scan_users(users, k, test_encoding, tol, best) ==
    IF k > Len(users) THEN best
    ELSE scan_users(users, k + 1, test_encoding, tol,
             scan_encodings(users[k].face_encodings, k, test_encoding, tol, best))

\* recognize_user with the call of save_encodings of line 212 left out
recognize_saves_nothing(users, file) == file

\* What recognize_user leaves in the file after a match
recognize_saves(users, file) == save_encodings(users)

\* recognize_user(image) at time t: the result, the dict and the file afterwards
recognize_user(users, file, tol, image, t) ==
    IF users = <<>> \/ Len(image) = 0
    THEN [result |-> NoMatch, users |-> users, file |-> file]
    ELSE LET test_encoding == image[1]
             best == scan_users(users, 1, test_encoding, tol,
                                [distance |-> One, user |-> 0])
         IN  IF best.user # 0
             THEN LET new == [users EXCEPT ![best.user].last_seen = t,
                                           ![best.user].times_recognized = @ + 1]
                  IN  [result |-> [matched |-> TRUE, id |-> users[best.user].id,
                                   confidence |-> One - best.distance],
                       users |-> new, file |-> recognize_saves(new, file)]
             ELSE [result |-> NoMatch, users |-> users, file |-> file]

----------------------------------------------------------------------------
(* Face actions *)

RECURSIVE CountEncodings(_)
CountEncodings(users) ==
    IF users = <<>> THEN 0
    ELSE Len(Head(users).face_encodings) + CountEncodings(Tail(users))

RECURSIVE CountRecognized(_)
CountRecognized(users) ==
    IF users = <<>> THEN 0
    ELSE Head(users).times_recognized + CountRecognized(Tail(users))

FaceCallOf(op, user_id, image, ok, result) ==
    [op |-> op, user_id |-> user_id, image |-> image, ok |-> ok, result |-> result,
     old |-> known_users, oldFile |-> encodings_file]

\* The call returns to its caller; the next call can be made.
ReturnFace ==
    /\ faceCall # NoCall
    /\ faceCall' = NoCall
    /\ UNCHANGED <<tolerance, known_users, encodings_file>>

EnrollUser(user_id, image) ==
    LET r == enroll_user(known_users, user_id, image, clock)
    IN  /\ faceCall = NoCall
        /\ known_users' = r.users
        /\ CountEncodings(known_users') <= MaxEncodings
        /\ encodings_file' = IF r.ok THEN save_encodings(known_users') ELSE encodings_file
        /\ faceCall' = FaceCallOf("enroll_user", user_id, image, r.ok, NoMatch)
        /\ UNCHANGED tolerance

AddFaceSample(user_id, image) ==
    LET r == add_face_sample(known_users, user_id, image)
    IN  /\ faceCall = NoCall
        /\ known_users' = r.users
        /\ CountEncodings(known_users') <= MaxEncodings
        /\ encodings_file' = IF r.ok THEN save_encodings(known_users') ELSE encodings_file
        /\ faceCall' = FaceCallOf("add_face_sample", user_id, image, r.ok, NoMatch)
        /\ UNCHANGED tolerance

RemoveUser(user_id) ==
    LET r == remove_user(known_users, user_id)
    IN  /\ faceCall = NoCall
        /\ known_users' = r.users
        /\ encodings_file' = IF r.ok THEN save_encodings(known_users') ELSE encodings_file
        /\ faceCall' = FaceCallOf("remove_user", user_id, <<>>, r.ok, NoMatch)
        /\ UNCHANGED tolerance

RecognizeUser(image) ==
    LET r == recognize_user(known_users, encodings_file, tolerance, image, clock)
    IN  /\ faceCall = NoCall
        /\ known_users' = r.users
        /\ CountRecognized(known_users') <= MaxRecognized
        /\ encodings_file' = r.file
        /\ faceCall' = FaceCallOf("recognize_user", 0, image, r.result.matched, r.result)
        /\ UNCHANGED tolerance

\* preferences arguments of update_user_preferences
PreferenceDicts == { EmptyDict, [k \in {"diet"} |-> "vegan"] }

\* dict.update
DictUpdate(d, e) ==
    [k \in (DOMAIN d) \cup (DOMAIN e) |-> IF k \in DOMAIN e THEN e[k] ELSE d[k]]

\* update_user_preferences(user_id, preferences)
update_user_preferences(users, user_id, preferences) ==
    IF IndexOf(users, user_id) = 0 THEN [ok |-> FALSE, users |-> users]
    ELSE [ok |-> TRUE,
          users |-> [users EXCEPT ![IndexOf(users, user_id)].preferences =
                                      DictUpdate(@, preferences)]]

\* The faces recognize_multiple_users goes through: zip(face_encodings, face_locations)
faces_zipped(image) == image

\* The loop of lines 247-263 from face i on; acc is the dict and the results so far
RECURSIVE match_faces(_, _, _, _, _)
match_faces(faces, i, tol, t, acc) ==
    IF i > Len(faces) THEN acc
    ELSE LET best == scan_users(acc.users, 1, faces[i], tol,
                                [distance |-> One, user |-> 0])
         IN  match_faces(faces, i + 1, tol, t,
                 IF best.user # 0
                 THEN [users |-> [acc.users EXCEPT
                                     ![best.user].last_seen = t,
                                     ![best.user].times_recognized = @ + 1],
                       results |-> Append(acc.results,
                                     [id |-> acc.users[best.user].id,
                                      confidence |-> One - best.distance,
                                      face |-> i])]
                 ELSE acc)

\* recognize_multiple_users(image) at time t: the results, the dict and the file afterwards
recognize_multiple_users(users, file, tol, image, t) ==
    IF users = <<>> \/ Len(image) = 0
    THEN [results |-> <<>>, users |-> users, file |-> file]
    ELSE LET acc == match_faces(faces_zipped(image), 1, tol, t,
                                [users |-> users, results |-> <<>>])
         IN  [results |-> acc.results, users |-> acc.users,
              file |-> IF acc.results # <<>> THEN save_encodings(acc.users) ELSE file]

UpdateUserPreferences(user_id, preferences) ==
    LET r == update_user_preferences(known_users, user_id, preferences)
    IN  /\ faceCall = NoCall
        /\ known_users' = r.users
        /\ encodings_file' = IF r.ok THEN save_encodings(known_users') ELSE encodings_file
        /\ faceCall' = FaceCallOf("update_user_preferences", user_id, <<>>, r.ok, NoMatch)
        /\ UNCHANGED tolerance

RecognizeMultipleUsers(image) ==
    LET r == recognize_multiple_users(known_users, encodings_file, tolerance, image, clock)
    IN  /\ faceCall = NoCall
        /\ CountRecognized(known_users) < MaxRecognized
        /\ known_users' = r.users
        /\ encodings_file' = r.file
        /\ faceCall' = FaceCallOf("recognize_multiple_users", 0, image,
                                  r.results # <<>>, r.results)
        /\ UNCHANGED tolerance

\* FacialRecognitionManager.__init__ with no encodings file on disk
InitFace ==
    /\ tolerance \in Tolerances
    /\ known_users = <<>>
    /\ encodings_file = NoFile
    /\ faceCall = NoCall

exceptFace == <<invVars, camVars, doorVars, cmpVars, ioVars,
    cbVars, ctlVars, famVars>>

NextFace ==
    \/ Tick /\ faceCall = NoCall /\ UNCHANGED <<faceVars, exceptFace>>
    \/ ReturnFace /\ UNCHANGED <<clock, exceptFace>>
    \/ \E u \in FaceUserIds, img \in Images :
          EnrollUser(u, img) /\ UNCHANGED <<clock, exceptFace>>
    \/ \E u \in FaceUserIds, img \in Images :
          AddFaceSample(u, img) /\ UNCHANGED <<clock, exceptFace>>
    \/ \E u \in FaceUserIds : RemoveUser(u) /\ UNCHANGED <<clock, exceptFace>>
    \/ \E img \in Images : RecognizeUser(img) /\ UNCHANGED <<clock, exceptFace>>

\* Every operation on the profile store, at one time of day
NextProfiles ==
    \/ ReturnFace /\ UNCHANGED <<clock, exceptFace>>
    \/ \E u \in FaceUserIds, img \in Images :
          EnrollUser(u, img) /\ UNCHANGED <<clock, exceptFace>>
    \/ \E u \in FaceUserIds, img \in Images :
          AddFaceSample(u, img) /\ UNCHANGED <<clock, exceptFace>>
    \/ \E u \in FaceUserIds : RemoveUser(u) /\ UNCHANGED <<clock, exceptFace>>
    \/ \E img \in Images : RecognizeUser(img) /\ UNCHANGED <<clock, exceptFace>>
    \/ \E img \in Images : RecognizeMultipleUsers(img) /\ UNCHANGED <<clock, exceptFace>>
    \/ \E u \in FaceUserIds, p \in PreferenceDicts :
          UpdateUserPreferences(u, p) /\ UNCHANGED <<clock, exceptFace>>

----------------------------------------------------------------------------
(* ImageComparator: change regions *)

MaxRegions == 3    \* longest list of regions given to the filter and the merge

\* Confidences, thresholds on them and overlap thresholds are counted in
\* sixtieths: Full is 1.0.
Full == 60

\* Bounding rectangles, all with width and height of at least one pixel as
\* cv2.boundingRect gives them: a large one, one half inside it, one touching
\* it (and half over the previous one), one far away.
Rects ==
    { [x |-> 0, y |-> 0, width |-> 4, height |-> 4],
      [x |-> 3, y |-> 0, width |-> 2, height |-> 2],
      [x |-> 4, y |-> 0, width |-> 2, height |-> 2],
      [x |-> 6, y |-> 6, width |-> 1, height |-> 1] }

\* 0.4 and 0.9
Confidences == {24, 54}

\* min_confidence arguments: the default 0.5, the controller's 0.6, and 0.9
MinConfidences == {30, 36, 54}

\* overlap_threshold arguments: 0.0 and the default 0.5
OverlapThresholds == {0, 30}

ChangeRegion(rect, confidence, zone, change_type) ==
    [x |-> rect.x, y |-> rect.y, width |-> rect.width, height |-> rect.height,
     confidence |-> confidence, zone |-> zone, change_type |-> change_type]

RegionInputs ==
    { ChangeRegion(r, c, "shelf_1_left", "addition") : r \in Rects, c \in Confidences }

RegionLists == UNION { [1..n -> RegionInputs] : n \in 0..MaxRegions }

Max(a, b) == IF a >= b THEN a ELSE b
Min(a, b) == IF a <= b THEN a ELSE b

\* filter_significant_changes with ">" for ">="
filter_strictly_above(changes, min_confidence) ==
    SelectSeq(changes, LAMBDA c : c.confidence > min_confidence)

\* filter_significant_changes(changes, min_confidence)
filter_significant_changes(changes, min_confidence) ==
    SelectSeq(changes, LAMBDA c : c.confidence >= min_confidence)

\* The sort key: c.width * c.height
Area(c) == c.width * c.height

\* One step of a sort that puts a region before the regions of equal area
\* already placed
insert_before_equal(sorted, c) ==
    LET p == Cardinality({ i \in DOMAIN sorted : Area(sorted[i]) > Area(c) })
    IN  SubSeq(sorted, 1, p) \o <<c>> \o SubSeq(sorted, p + 1, Len(sorted))

\* One step of the stable sort: c goes after every region placed so far whose
\* area is at least its own.
insert_by_area(sorted, c) ==
    LET p == Cardinality({ i \in DOMAIN sorted : Area(sorted[i]) >= Area(c) })
    IN  SubSeq(sorted, 1, p) \o <<c>> \o SubSeq(sorted, p + 1, Len(sorted))

\* sorted(changes, key=lambda c: c.width * c.height, reverse=True)
RECURSIVE sorted_by_area(_)
sorted_by_area(changes) ==
    IF changes = <<>> THEN <<>>
    ELSE insert_by_area(sorted_by_area(SubSeq(changes, 1, Len(changes) - 1)),
                        changes[Len(changes)])

\* _calculate_overlap(region1, region2): the ratio as numerator and
\* denominator, 0.0 as 0/1
_calculate_overlap(region1, region2) ==
    LET x1 == Max(region1.x, region2.x)
        y1 == Max(region1.y, region2.y)
        x2 == Min(region1.x + region1.width, region2.x + region2.width)
        y2 == Min(region1.y + region1.height, region2.y + region2.height)
    IN  IF x2 < x1 \/ y2 < y1 THEN [num |-> 0, den |-> 1]
        ELSE [num |-> (x2 - x1) * (y2 - y1),
              den |-> Min(Area(region1), Area(region2))]

\* Line 247 with ">=" for ">"
reaches(ratio, overlap_threshold) ==
    ratio.num * Full >= overlap_threshold * ratio.den

\* Line 247: self._calculate_overlap(change, existing) > overlap_threshold
exceeds(ratio, overlap_threshold) ==
    ratio.num * Full > overlap_threshold * ratio.den

\* A merge that leaves the kept region's confidence as it is
keep_confidence(existing, change) == existing

\* Line 249: max(existing.confidence, change.confidence)
merged_confidence(existing, change) == Max(existing, change)

\* The loop of lines 243-254 from sorted_changes[i] on
RECURSIVE merge_loop(_, _, _, _)
merge_loop(sorted_changes, i, merged, overlap_threshold) ==
    IF i > Len(sorted_changes) THEN merged
    ELSE LET change == sorted_changes[i]
             hits == { k \in DOMAIN merged :
                         exceeds(_calculate_overlap(change, merged[k]), overlap_threshold) }
         IN  IF hits # {}
             THEN LET k == CHOOSE h \in hits : \A g \in hits : h <= g
                  IN  merge_loop(sorted_changes, i + 1,
                          [merged EXCEPT ![k].confidence =
                                             merged_confidence(@, change.confidence)],
                          overlap_threshold)
             ELSE merge_loop(sorted_changes, i + 1, Append(merged, change),
                             overlap_threshold)

\* merge_overlapping_regions(changes, overlap_threshold)
merge_overlapping_regions(changes, overlap_threshold) ==
    IF changes = <<>> THEN <<>>
    ELSE merge_loop(sorted_by_area(changes), 1, <<>>, overlap_threshold)

\* A call, with where its argument came from
CmpCallOf(op, changes, param, result, source) ==
    [op |-> op, changes |-> changes, param |-> param, result |-> result,
     source |-> source]

\* The call returns to its caller.
ReturnCmp ==
    /\ cmpCall # NoCall
    /\ cmpCall' = NoCall

FilterSignificantChanges(changes, min_confidence) ==
    /\ cmpCall = NoCall
    /\ cmpCall' = CmpCallOf("filter_significant_changes", changes, min_confidence,
                            filter_significant_changes(changes, min_confidence),
                            [by |-> "caller"])

MergeOverlappingRegions(changes, overlap_threshold) ==
    /\ cmpCall = NoCall
    /\ cmpCall' = CmpCallOf("merge_overlapping_regions", changes, overlap_threshold,
                            merge_overlapping_regions(changes, overlap_threshold),
                            [by |-> "caller"])

----------------------------------------------------------------------------
(* ImageComparator: compare_images *)

\* A frame is an image whose rows are all alike, given by one row of pixels,
\* each pixel a BGR triple of three equal values.  The two frames of a zone
\* come from one camera and have one shape; the pipeline's kernels are scaled
\* to the frame: 3 for the blur's 21 and for the 5 of the morphology.
Columns == 1..4
FrameRows == 1..3
Levels == {0, 51, 255}
Frames == [Columns -> Levels]

\* diff_threshold: 0 and the default 30
DiffThresholds == {0, 30}

\* min_contour_area: 0 and 2, which stands for the default 500
MinContourAreas == {0, 2}

\* cv2.cvtColor(image, cv2.COLOR_BGR2GRAY): 0.299 R + 0.587 G + 0.114 B
cvtColor(image) ==
    [i \in DOMAIN image |-> (299 * image[i] + 587 * image[i] + 114 * image[i]) \div 1000]

\* The pixel at column i, the border reflected as BORDER_REFLECT_101 does
Reflected(image, i) ==
    IF i < 1 THEN image[2 - i]
    ELSE IF i > Len(image) THEN image[2 * Len(image) - i]
    ELSE image[i]

\* cv2.GaussianBlur with the kernel (1, 2, 1) / 4, rounded to the nearest level
GaussianBlur(image) ==
    [i \in DOMAIN image |->
        (Reflected(image, i - 1) + 2 * image[i] + Reflected(image, i + 1) + 2) \div 4]

\* cv2.absdiff
absdiff(a, b) ==
    [i \in DOMAIN a |-> IF a[i] >= b[i] THEN a[i] - b[i] ELSE b[i] - a[i]]

\* A threshold that also lets through a difference equal to diff_threshold
threshold_or_equal(diff, diff_threshold) ==
    [i \in DOMAIN diff |-> IF diff[i] >= diff_threshold THEN 255 ELSE 0]

\* cv2.threshold(diff, diff_threshold, 255, cv2.THRESH_BINARY)
threshold(diff, diff_threshold) ==
    [i \in DOMAIN diff |-> IF diff[i] > diff_threshold THEN 255 ELSE 0]

Near(mask, i) == { j \in DOMAIN mask : j >= i - 1 /\ j <= i + 1 }

dilate(mask) ==
    [i \in DOMAIN mask |-> IF \E j \in Near(mask, i) : mask[j] # 0 THEN 255 ELSE 0]

erode(mask) ==
    [i \in DOMAIN mask |-> IF \A j \in Near(mask, i) : mask[j] # 0 THEN 255 ELSE 0]

\* cv2.morphologyEx(thresh, cv2.MORPH_CLOSE, kernel) and (..., cv2.MORPH_OPEN, kernel)
morph_close(mask) == erode(dilate(mask))
morph_open(mask) == dilate(erode(mask))

\* cv2.findContours(thresh, RETR_EXTERNAL, ...): one contour for each maximal
\* run of set columns, as <<first column, last column>>, from left to right
RECURSIVE findContours(_, _)
findContours(mask, i) ==
    IF i > Len(mask) THEN <<>>
    ELSE IF mask[i] = 0 THEN findContours(mask, i + 1)
    ELSE LET last == CHOOSE j \in i..Len(mask) :
                        /\ \A h \in i..j : mask[h] # 0
                        /\ (j = Len(mask) \/ mask[j + 1] = 0)
         IN  <<  <<i, last>>  >> \o findContours(mask, last + 1)

\* cv2.contourArea of the contour around a block of w columns and all the rows
contourArea(contour) ==
    (contour[2] - contour[1]) * (Cardinality(FrameRows) - 1)

\* cv2.boundingRect(contour)
boundingRect(contour) ==
    [x |-> contour[1] - 1, y |-> 0,
     width |-> contour[2] - contour[1] + 1, height |-> Cardinality(FrameRows)]

\* The sum of the levels of gray[y:y+h, x:x+w]; np.mean is this sum over w * h
RECURSIVE roi_sum(_, _, _)
roi_sum(gray, from, to) ==
    IF from > to THEN 0
    ELSE Cardinality(FrameRows) * gray[from] + roi_sum(gray, from + 1, to)

\* Line 127 with ">=" for ">"
change_type_or_equal(before_brightness, after_brightness) ==
    IF after_brightness >= before_brightness THEN "addition" ELSE "removal"

\* Line 127: "addition" if after_brightness > before_brightness else "removal"
change_type_of(before_brightness, after_brightness) ==
    IF after_brightness > before_brightness THEN "addition" ELSE "removal"

\* Lines 130-131: min(abs(after_brightness - before_brightness) / 255.0, 1.0),
\* the brightnesses given as sums over the n pixels of the rectangle
confidence_of(before_sum, after_sum, n) ==
    Min(((IF after_sum >= before_sum THEN after_sum - before_sum
          ELSE before_sum - after_sum) * Full) \div (n * 255), Full)

\* The loop of lines 112-143 from contours[i] on
RECURSIVE changes_of(_, _, _, _, _, _)
changes_of(contours, i, gray_before, gray_after, zone, min_contour_area) ==
    IF i > Len(contours) THEN <<>>
    ELSE LET rest == changes_of(contours, i + 1, gray_before, gray_after, zone,
                                min_contour_area)
             rect == boundingRect(contours[i])
             before_sum == roi_sum(gray_before, contours[i][1], contours[i][2])
             after_sum == roi_sum(gray_after, contours[i][1], contours[i][2])
         IN  IF contourArea(contours[i]) < min_contour_area THEN rest
             ELSE << ChangeRegion(rect,
                                  confidence_of(before_sum, after_sum,
                                                rect.width * rect.height),
                                  zone,
                                  change_type_of(before_sum, after_sum)) >> \o rest

\* compare_images(before_image, after_image, zone): the list of changes
compare_images(before_image, after_image, zone, diff_threshold, min_contour_area) ==
    LET gray_before == cvtColor(before_image)
        gray_after == cvtColor(after_image)
        diff == absdiff(GaussianBlur(gray_before), GaussianBlur(gray_after))
        thresh == morph_open(morph_close(threshold(diff, diff_threshold)))
    IN  changes_of(findContours(thresh, 1), 1, gray_before, gray_after, zone,
                   min_contour_area)

\* compare_all_zones(before_images, after_images): the changes of each zone
compare_all_zones(before_images, after_images, diff_threshold, min_contour_area) ==
    [zone \in (DOMAIN before_images) \cap (DOMAIN after_images) |->
        compare_images(before_images[zone], after_images[zone], zone,
                       diff_threshold, min_contour_area)]

\* Frames and snapshots given to compare_all_zones
SampleFrames ==
    { [i \in Columns |-> 0],
      [i \in Columns |-> IF i \in {2, 3} THEN 255 ELSE 0],
      [i \in Columns |-> IF i = 2 THEN 51 ELSE 0] }

Snapshots ==
    UNION { [zs -> SampleFrames] : zs \in SUBSET {"shelf_1_left", "shelf_1_right"} }

FromCaller == [by |-> "caller"]

CompareImages(before_image, after_image, zone, diff_threshold, min_contour_area) ==
    /\ cmpCall = NoCall
    /\ cmpCall' = CmpCallOf("compare_images", <<before_image, after_image>>,
                            [diff_threshold |-> diff_threshold,
                             min_contour_area |-> min_contour_area],
                            compare_images(before_image, after_image, zone,
                                           diff_threshold, min_contour_area),
                            FromCaller)

CompareAllZones(before_images, after_images, diff_threshold, min_contour_area) ==
    /\ cmpCall = NoCall
    /\ cmpCall' = CmpCallOf("compare_all_zones", <<before_images, after_images>>,
                            [diff_threshold |-> diff_threshold,
                             min_contour_area |-> min_contour_area],
                            compare_all_zones(before_images, after_images,
                                              diff_threshold, min_contour_area),
                            FromCaller)

\* filter_significant_changes is given the changes compare_images has just returned
FilterCompared(min_confidence) ==
    /\ cmpCall # NoCall
    /\ cmpCall.op = "compare_images"
    /\ cmpCall' = CmpCallOf("filter_significant_changes", cmpCall.result, min_confidence,
                            filter_significant_changes(cmpCall.result, min_confidence),
                            [by |-> "compare_images", before |-> cmpCall.changes[1],
                             after |-> cmpCall.changes[2]])

\* merge_overlapping_regions is given the changes compare_images has just
\* returned, or what the filter has kept of them
MergeCompared(overlap_threshold) ==
    /\ cmpCall # NoCall
    /\ \/ cmpCall.op = "compare_images"
       \/ cmpCall.op = "filter_significant_changes" /\ cmpCall.source # FromCaller
    /\ cmpCall' = CmpCallOf("merge_overlapping_regions", cmpCall.result, overlap_threshold,
                            merge_overlapping_regions(cmpCall.result, overlap_threshold),
                            IF cmpCall.op = "compare_images"
                            THEN [by |-> "compare_images", before |-> cmpCall.changes[1],
                                  after |-> cmpCall.changes[2]]
                            ELSE cmpCall.source)

InitCmp == cmpCall = NoCall

exceptCmp == <<clock, invVars, camVars, doorVars, faceVars, ioVars,
    cbVars, ctlVars, famVars>>

NextCmp ==
    \/ ReturnCmp /\ UNCHANGED exceptCmp
    \/ /\ cmpCall = NoCall
       /\ \E l \in RegionLists, t \in MinConfidences :
             FilterSignificantChanges(l, t) /\ UNCHANGED exceptCmp
    \/ /\ cmpCall = NoCall
       /\ \E l \in RegionLists, t \in OverlapThresholds :
             MergeOverlappingRegions(l, t) /\ UNCHANGED exceptCmp
    \/ /\ cmpCall = NoCall
       /\ \E b \in Frames, a \in Frames, d \in DiffThresholds, m \in MinContourAreas :
             CompareImages(b, a, "shelf_1_left", d, m) /\ UNCHANGED exceptCmp
    \/ /\ cmpCall = NoCall
       /\ \E b \in Snapshots, a \in Snapshots, d \in DiffThresholds, m \in MinContourAreas :
             CompareAllZones(b, a, d, m) /\ UNCHANGED exceptCmp
    \/ \E t \in MinConfidences : FilterCompared(t) /\ UNCHANGED exceptCmp
    \/ \E t \in OverlapThresholds : MergeCompared(t) /\ UNCHANGED exceptCmp

----------------------------------------------------------------------------
(* Stores on a disk that can fail *)

\* How one write of a store goes: it succeeds, open() raises and the file
\* stays as it was, or the dump raises after open() has truncated the file.
WriteOutcomes == {"ok", "open_fails", "dump_fails"}

\* The arguments of the calls made while the disk can fail
IoUserIds == { [type |-> "int", n |-> 1, s |-> ""] }
IoQuantities == {1}
IoFaceUserIds == {1}
IoImages == { <<>>, <<0>> }

\* with open(file, 'w') as f: dump(content, f): the file's condition afterwards
disk_after(disk, outcome) ==
    IF outcome = "ok" THEN "written"
    ELSE IF outcome = "dump_fails" THEN "torn"
    ELSE disk

\* ... and what can be read back from it
file_after(file, content, outcome) == IF outcome = "ok" THEN content ELSE file

\* save_inventory has no try: a failed write raises to the caller
save_inventory_raises(outcome) == outcome # "ok"

\* save_encodings catches every Exception: nothing is raised
save_encodings_raises(outcome) == FALSE

\* load_inventory: only FileNotFoundError is caught, a file that does not
\* parse raises out of __init__
load_inventory_raises(disk) == disk = "torn"

load_inventory_from(disk, file) == IF disk = "written" THEN file ELSE EmptyDict

\* load_encodings: a missing file and a file that does not load both give {}
load_encodings(disk, file) == IF disk = "written" THEN file ELSE <<>>

\* update_from_detection's first loop up to the first write: add_item saves,
\* the else branch does not
RECURSIVE detect_until_write(_, _, _, _, _)
detect_until_write(inv, user_id, detected_items, current_items, t) ==
    IF detected_items = <<>> THEN [inv |-> inv, wrote |-> FALSE]
    ELSE LET item == Head(detected_items)
             next == detect_one(inv, user_id, item, current_items, t)
         IN  IF item.class \notin current_items
             THEN [inv |-> next, wrote |-> TRUE]
             ELSE detect_until_write(next, user_id, Tail(detected_items),
                                     current_items, t)

\* A store call on the failing disk: whether it raised to its caller, and the
\* dicts the completed operation leaves in memory
IoCallOf(op, store, raised, inv, users) ==
    [op |-> op, store |-> store, raised |-> raised,
     inventories |-> inv, known_users |-> users]

\* InventoryManager.__init__ raised: there is no manager to go on with
Down == ioCall # NoCall /\ ioCall.op = "load_inventory" /\ ioCall.raised

ReturnIo ==
    /\ ioCall # NoCall
    /\ ~Down
    /\ ioCall' = NoCall
    /\ UNCHANGED <<inventories, inventory_file, inventory_disk,
                   known_users, encodings_file, encodings_disk>>

IoAddItem(user_id, item_name, quantity, outcome) ==
    LET new == add_item(inventories, user_id, item_name, quantity, clock)
    IN  /\ inventories' = new
        /\ QtyOk(inventories')
        /\ inventory_file' = file_after(inventory_file, save_inventory(new), outcome)
        /\ inventory_disk' = disk_after(inventory_disk, outcome)
        /\ ioCall' = IoCallOf("add_item", "inventory", save_inventory_raises(outcome),
                              new, known_users)
        /\ UNCHANGED <<known_users, encodings_file, encodings_disk>>

IoRemoveItem(user_id, item_name, quantity, outcome) ==
    LET new == remove_item(inventories, user_id, item_name, quantity)
        uid == str(user_id)
        saves == uid \in DOMAIN inventories /\ item_name \in DOMAIN inventories[uid]
    IN  /\ inventories' = new
        /\ inventory_file' =
              IF saves THEN file_after(inventory_file, save_inventory(new), outcome)
              ELSE inventory_file
        /\ inventory_disk' =
              IF saves THEN disk_after(inventory_disk, outcome) ELSE inventory_disk
        /\ ioCall' = IoCallOf("remove_item", "inventory",
                              saves /\ save_inventory_raises(outcome), new, known_users)
        /\ UNCHANGED <<known_users, encodings_file, encodings_disk>>

\* update_from_detection writes in every add_item and remove_item it calls and
\* once more at its end; the first write that raises ends the call there.
IoUpdateFromDetection(user_id, detected_items, outcome) ==
    LET uid  == str(user_id)
        inv1 == IF uid \notin DOMAIN inventories
                THEN Put(inventories, uid, EmptyDict) ELSE inventories
        current_items == DOMAIN inv1[uid]
        detected_item_names == { detected_items[i].class : i \in DOMAIN detected_items }
        gone == current_items \ detected_item_names
        first == detect_until_write(inv1, user_id, detected_items, current_items, clock)
        new == update_from_detection(inventories, user_id, detected_items, clock)
    IN  /\ \/ /\ ~save_inventory_raises(outcome)
              /\ inventories' = new
           \/ /\ save_inventory_raises(outcome)
              /\ first.wrote
              /\ inventories' = first.inv
           \/ /\ save_inventory_raises(outcome)
              /\ ~first.wrote
              /\ \E item \in gone : inventories' = remove_item(first.inv, user_id, item, 1)
           \/ /\ save_inventory_raises(outcome)
              /\ ~first.wrote
              /\ gone = {}
              /\ inventories' = first.inv
        /\ QtyOk(inventories')
        /\ inventory_file' = file_after(inventory_file, save_inventory(new), outcome)
        /\ inventory_disk' = disk_after(inventory_disk, outcome)
        /\ ioCall' = IoCallOf("update_from_detection", "inventory",
                              save_inventory_raises(outcome), new, known_users)
        /\ UNCHANGED <<known_users, encodings_file, encodings_disk>>

\* The program is started again: InventoryManager.__init__
IoLoadInventory ==
    LET new == load_inventory_from(inventory_disk, inventory_file)
    IN  /\ inventories' = new
        /\ ioCall' = IoCallOf("load_inventory", "inventory",
                              load_inventory_raises(inventory_disk), new, known_users)
        /\ UNCHANGED <<inventory_file, inventory_disk,
                       known_users, encodings_file, encodings_disk>>

IoEnrollUser(user_id, image, outcome) ==
    LET r == enroll_user(known_users, user_id, image, clock)
    IN  /\ known_users' = r.users
        /\ CountEncodings(known_users') <= MaxEncodings
        /\ encodings_file' =
              IF r.ok THEN file_after(encodings_file, save_encodings(r.users), outcome)
              ELSE encodings_file
        /\ encodings_disk' =
              IF r.ok THEN disk_after(encodings_disk, outcome) ELSE encodings_disk
        /\ ioCall' = IoCallOf("enroll_user", "faces",
                              r.ok /\ save_encodings_raises(outcome),
                              inventories, r.users)
        /\ UNCHANGED <<inventories, inventory_file, inventory_disk>>

IoRecognizeUser(image, outcome) ==
    LET r == recognize_user(known_users, encodings_file, tolerance, image, clock)
    IN  /\ known_users' = r.users
        /\ CountRecognized(known_users') <= MaxRecognized
        /\ encodings_file' =
              IF r.result.matched THEN file_after(encodings_file, r.file, outcome)
              ELSE encodings_file
        /\ encodings_disk' =
              IF r.result.matched THEN disk_after(encodings_disk, outcome)
              ELSE encodings_disk
        /\ ioCall' = IoCallOf("recognize_user", "faces",
                              r.result.matched /\ save_encodings_raises(outcome),
                              inventories, r.users)
        /\ UNCHANGED <<inventories, inventory_file, inventory_disk>>

IoRemoveUser(user_id, outcome) ==
    LET r == remove_user(known_users, user_id)
    IN  /\ known_users' = r.users
        /\ encodings_file' =
              IF r.ok THEN file_after(encodings_file, save_encodings(r.users), outcome)
              ELSE encodings_file
        /\ encodings_disk' =
              IF r.ok THEN disk_after(encodings_disk, outcome) ELSE encodings_disk
        /\ ioCall' = IoCallOf("remove_user", "faces",
                              r.ok /\ save_encodings_raises(outcome),
                              inventories, r.users)
        /\ UNCHANGED <<inventories, inventory_file, inventory_disk>>

\* The program is started again: FacialRecognitionManager.__init__
IoLoadEncodings ==
    LET new == load_encodings(encodings_disk, encodings_file)
    IN  /\ known_users' = new
        /\ ioCall' = IoCallOf("load_encodings", "faces", FALSE, inventories, new)
        /\ UNCHANGED <<inventories, inventory_file, inventory_disk,
                       encodings_file, encodings_disk>>

InitIo ==
    /\ inventory_disk = "missing"
    /\ encodings_disk = "missing"
    /\ ioCall = NoCall

exceptIo == <<clock, invCall, camVars, doorVars, tolerance, faceCall, cmpVars,
    cbVars, ctlVars, famVars>>

NextIo ==
    \/ ReturnIo /\ UNCHANGED exceptIo
    \/ /\ ioCall = NoCall
       /\ \E u \in IoUserIds, i \in ItemNames, q \in IoQuantities, w \in WriteOutcomes :
             IoAddItem(u, i, q, w) /\ UNCHANGED exceptIo
    \/ /\ ioCall = NoCall
       /\ \E u \in IoUserIds, i \in ItemNames, q \in IoQuantities, w \in WriteOutcomes :
             IoRemoveItem(u, i, q, w) /\ UNCHANGED exceptIo
    \/ /\ ioCall = NoCall
       /\ \E u \in IoUserIds, b \in Batches, w \in WriteOutcomes :
             IoUpdateFromDetection(u, b, w) /\ UNCHANGED exceptIo
    \/ ioCall = NoCall /\ IoLoadInventory /\ UNCHANGED exceptIo
    \/ /\ ioCall = NoCall
       /\ \E u \in IoFaceUserIds, img \in IoImages, w \in WriteOutcomes :
             IoEnrollUser(u, img, w) /\ UNCHANGED exceptIo
    \/ /\ ioCall = NoCall
       /\ \E img \in IoImages, w \in WriteOutcomes :
             IoRecognizeUser(img, w) /\ UNCHANGED exceptIo
    \/ /\ ioCall = NoCall
       /\ \E u \in IoFaceUserIds, w \in WriteOutcomes :
             IoRemoveUser(u, w) /\ UNCHANGED exceptIo
    \/ ioCall = NoCall /\ IoLoadEncodings /\ UNCHANGED exceptIo

----------------------------------------------------------------------------
(* DoorSensorManager: the callback lists *)

MaxCallbacks == 2    \* callbacks registered per event

\* What a registered callback does when it is called
Behaviours == {"returns", "raises"}

\* The loop of _trigger_door_open / _trigger_door_close from callbacks[i] on:
\* the calls made, in order, each with what the callback finds in is_open.
\* A loop without the try: the first callback that raises ends it, and the
\* exception leaves the loop
RECURSIVE trigger_unguarded(_, _, _)
trigger_unguarded(callbacks, i, door_open) ==
    IF i > Len(callbacks) THEN [invoked |-> <<>>, raised |-> FALSE]
    ELSE LET call == [index |-> i, raised |-> callbacks[i] = "raises",
                      is_open |-> door_open]
         IN  IF call.raised THEN [invoked |-> <<call>>, raised |-> TRUE]
             ELSE LET rest == trigger_unguarded(callbacks, i + 1, door_open)
                  IN  [invoked |-> <<call>> \o rest.invoked, raised |-> rest.raised]

\* for callback in callbacks: try: callback(timestamp) / except Exception
RECURSIVE trigger(_, _, _)
trigger(callbacks, i, door_open) ==
    IF i > Len(callbacks) THEN [invoked |-> <<>>, raised |-> FALSE]
    ELSE LET call == [index |-> i, raised |-> callbacks[i] = "raises",
                      is_open |-> door_open]
             rest == trigger(callbacks, i + 1, door_open)
         IN  [invoked |-> <<call>> \o rest.invoked, raised |-> rest.raised]

CbCallOf(op, fired, t) ==
    [op |-> op, fired |-> fired, invoked |-> t.invoked, raised |-> t.raised,
     old |-> is_open]

\* register_open_callback(callback)
RegisterOpenCallback(callback) ==
    /\ cbCall = NoCall
    /\ Len(on_door_open_callbacks) < MaxCallbacks
    /\ on_door_open_callbacks' = Append(on_door_open_callbacks, callback)
    /\ UNCHANGED <<on_door_close_callbacks, cbCall, is_open>>

\* register_close_callback(callback)
RegisterCloseCallback(callback) ==
    /\ cbCall = NoCall
    /\ Len(on_door_close_callbacks) < MaxCallbacks
    /\ on_door_close_callbacks' = Append(on_door_close_callbacks, callback)
    /\ UNCHANGED <<on_door_open_callbacks, cbCall, is_open>>

\* simulate_door_open() with any callbacks registered
SimulateOpenWithCallbacks ==
    /\ cbCall = NoCall
    /\ IF ~is_open
       THEN /\ is_open' = TRUE
            /\ cbCall' = CbCallOf("simulate_door_open", TRUE,
                                  trigger(on_door_open_callbacks, 1, TRUE))
       ELSE /\ is_open' = is_open
            /\ cbCall' = CbCallOf("simulate_door_open", FALSE,
                                  [invoked |-> <<>>, raised |-> FALSE])
    /\ UNCHANGED <<on_door_open_callbacks, on_door_close_callbacks>>

\* simulate_door_close() with any callbacks registered
SimulateCloseWithCallbacks ==
    /\ cbCall = NoCall
    /\ IF is_open
       THEN /\ is_open' = FALSE
            /\ cbCall' = CbCallOf("simulate_door_close", TRUE,
                                  trigger(on_door_close_callbacks, 1, FALSE))
       ELSE /\ is_open' = is_open
            /\ cbCall' = CbCallOf("simulate_door_close", FALSE,
                                  [invoked |-> <<>>, raised |-> FALSE])
    /\ UNCHANGED <<on_door_open_callbacks, on_door_close_callbacks>>

\* The call returns to its caller; the next call can be made.
ReturnCb ==
    /\ cbCall # NoCall
    /\ cbCall' = NoCall
    /\ UNCHANGED <<on_door_open_callbacks, on_door_close_callbacks, is_open>>

\* DoorSensorManager.__init__: no callback is registered
InitCb ==
    /\ on_door_open_callbacks = <<>>
    /\ on_door_close_callbacks = <<>>
    /\ cbCall = NoCall

exceptCb == <<clock, invVars, camVars, simulation_mode, last_event_time, time, pin,
              edge_pending, session_start, door_log, faceVars, cmpVars, ioVars,
              ctlVars, famVars>>

NextCb ==
    \/ \E c \in Behaviours : RegisterOpenCallback(c) /\ UNCHANGED exceptCb
    \/ \E c \in Behaviours : RegisterCloseCallback(c) /\ UNCHANGED exceptCb
    \/ SimulateOpenWithCallbacks /\ UNCHANGED exceptCb
    \/ SimulateCloseWithCallbacks /\ UNCHANGED exceptCb
    \/ ReturnCb /\ UNCHANGED exceptCb

----------------------------------------------------------------------------
(* SmartFridgeController *)

\* Detection confidences are counted in hundredths (the detector rounds to
\* two decimals) and region confidences in sixtieths, as ChangeRegion's are.
AutoAddConfidence == 80          \* confidence > 0.8
SignificantConfidence == 36      \* min_confidence=0.6

\* ImageComparator() as the controller constructs it: diff_threshold=30 and
\* min_contour_area=500, the area scaled to the frames of this model
default_diff_threshold == 30
default_min_contour_area == 2

\* The interior cameras _setup_cameras registers
InteriorZones == <<"shelf_1_left">>

\* What the interior camera sees: an empty shelf, a shelf with something on
\* it, a shelf filled
CtlFrames ==
    { [i \in Columns |-> 0],
      [i \in Columns |-> IF i \in {2, 3} THEN 255 ELSE 0],
      [i \in Columns |-> 255] }

\* capture_before_snapshot() / capture_after_snapshot(): the zones that gave a frame
CtlSnapshots ==
    UNION { [zs -> CtlFrames] : zs \in SUBSET Range(InteriorZones) }

\* object_detector.detect(image): a list of detections
DetectorOutputs == [class : ItemNames, confidence : {AutoAddConfidence, 90}]
DetectionLists == UNION { [1..n -> DetectorOutputs] : n \in 0..2 }

\* What detect returns for the after image of each zone
ZoneDetections == [Range(InteriorZones) -> DetectionLists]

\* The user_id the controller passes to the inventory: user.id, or 0
IntId(n) == [type |-> "int", n |-> n, s |-> ""]

\* get_state_dict(): self.current_state.emotion.value raises AttributeError
\* when emotion is not an AvatarEmotion
get_state_dict_raises(emotion) == emotion # "enum"

\* avatar.speak(message, emotion=...) as the controller calls it, with the
\* emotion given as a str: the state is assigned, then get_state_dict is called
speak(emotion) == [emotion |-> emotion, raised |-> get_state_dict_raises(emotion)]

\* all_changes: the changes of every zone of comparison_results, in the dict's order
RECURSIVE all_changes_of(_, _)
all_changes_of(comparison_results, i) ==
    IF i > Len(InteriorZones) THEN <<>>
    ELSE (IF InteriorZones[i] \in DOMAIN comparison_results
          THEN comparison_results[InteriorZones[i]] ELSE <<>>)
         \o all_changes_of(comparison_results, i + 1)

\* The inner loop of _detect_items_in_regions over one zone's detections
items_of(detections, zone_name) ==
    [k \in DOMAIN detections |->
        [item |-> detections[k].class, confidence |-> detections[k].confidence,
         zone |-> zone_name, type |-> "addition"]]

\* The loop of _detect_items_in_regions over self.after_images, from zone i on
RECURSIVE detect_in_zones(_, _, _, _)
detect_in_zones(images, change_regions, detections, i) ==
    IF i > Len(InteriorZones) THEN <<>>
    ELSE LET zone_name == InteriorZones[i]
             zone_changes == SelectSeq(change_regions, LAMBDA c : c.zone = zone_name)
             rest == detect_in_zones(images, change_regions, detections, i + 1)
         IN  IF zone_name \notin DOMAIN images \/ zone_changes = <<>> THEN rest
             ELSE items_of(detections[zone_name], zone_name) \o rest

\* _detect_items_in_regions without the test of line 396
detect_without_detector_test(detector, images, change_regions, detections) ==
    detect_in_zones(images, change_regions, detections, 1)

\* _detect_items_in_regions(change_regions)
_detect_items_in_regions(detector, images, change_regions, detections) ==
    IF ~detector THEN <<>>
    ELSE detect_in_zones(images, change_regions, detections, 1)

\* One pass of _update_inventory_with_detections that adds whatever the confidence
update_one_any_confidence(inv, user_id, item, t) ==
    IF item.type = "addition" THEN add_item(inv, user_id, item.item, 1, t)
    ELSE IF item.type = "removal" THEN remove_item(inv, user_id, item.item, 1)
    ELSE inv

\* One pass of the loop of _update_inventory_with_detections
update_one(inv, user_id, item, t) ==
    IF item.type = "addition"
    THEN IF item.confidence > AutoAddConfidence
         THEN add_item(inv, user_id, item.item, 1, t)
         ELSE inv
    ELSE IF item.type = "removal" THEN remove_item(inv, user_id, item.item, 1)
    ELSE inv

\* _update_inventory_with_detections(detected_items), the user id given
RECURSIVE _update_inventory_with_detections(_, _, _, _)
_update_inventory_with_detections(inv, user_id, detected_items, t) ==
    IF detected_items = <<>> THEN inv
    ELSE _update_inventory_with_detections(
             update_one(inv, user_id, Head(detected_items), t),
             user_id, Tail(detected_items), t)

\* The user id of line 433: self.current_user.id if self.current_user else 0
attributed_user(user) == IntId(user)

\* _analyze_and_update_inventory(): how it ends, what it leaves in the
\* inventory and in the avatar, and the lists it went through
_analyze_and_update_inventory(inv, user, detector, before, after, detections, emotion, t) ==
    LET comparison_results == compare_all_zones(before, after, default_diff_threshold,
                                                default_min_contour_area)
        all_changes == all_changes_of(comparison_results, 1)
        significant == filter_significant_changes(all_changes, SignificantConfidence)
        detected_items == _detect_items_in_regions(detector, after, significant,
                                                   detections)
        none == [outcome |-> "missing_images", raised |-> FALSE, inventories |-> inv,
                 emotion |-> emotion, all_changes |-> <<>>, significant |-> <<>>,
                 detected_items |-> <<>>]
    IN  IF DOMAIN before = {} \/ DOMAIN after = {} THEN none
        ELSE IF all_changes = <<>>
        THEN [none EXCEPT !.outcome = "no_changes",
                          !.raised = speak("str").raised,
                          !.emotion = speak("str").emotion]
        ELSE IF detected_items = <<>>
        THEN [none EXCEPT !.outcome = "no_items",
                          !.raised = speak("str").raised,
                          !.emotion = speak("str").emotion,
                          !.all_changes = all_changes,
                          !.significant = significant]
        ELSE [none EXCEPT !.outcome = "updated",
                          !.inventories = _update_inventory_with_detections(
                                              inv, attributed_user(user),
                                              detected_items, t),
                          !.emotion = "enum",
                          !.all_changes = all_changes,
                          !.significant = significant,
                          !.detected_items = detected_items]

\* What capture_facial_recognition() returns: None, or an image
FaceCaptures == { [captured |-> FALSE, image |-> <<>>] }
                \cup { [captured |-> TRUE, image |-> img] : img \in {<<>>, <<0>>, <<12>>} }

NoDetails == [outcome |-> "none"]

CtlCallOf(op, raised, details) ==
    [op |-> op, raised |-> raised, details |-> details,
     old |-> inventories, oldUsers |-> known_users, user |-> current_user,
     detector |-> object_detector, last |-> last_detected]

\* The call returns to its caller; the next call can be made.
ReturnCtl ==
    /\ ctlCall # NoCall
    /\ ctlCall' = NoCall
    /\ UNCHANGED <<current_user, ctl_before_images, ctl_after_images, object_detector,
                   avatar_emotion, last_detected, inventories, inventory_file,
                   known_users, encodings_file, is_open, session_start>>

\* The program is started: SmartFridgeController.__init__.  Both stores are
\* read back as they were written (every mutation ends with a save);
\* _setup_object_detector gives a detector when the model files are there
\* and load.
Construct(models_loaded) ==
    /\ ctlCall = NoCall
    /\ current_user' = 0
    /\ ctl_before_images' = EmptyDict
    /\ ctl_after_images' = EmptyDict
    /\ object_detector' = models_loaded
    /\ avatar_emotion' = "enum"
    /\ last_detected' = NoDetails
    /\ is_open' = FALSE
    /\ session_start' = NoSession
    /\ ctlCall' = CtlCallOf("__init__", FALSE, NoDetails)
    /\ UNCHANGED <<inventories, inventory_file, known_users, encodings_file>>

\* The door opens: simulate_door_open() calls on_door_open(timestamp)
DoorOpens(snapshot) ==
    /\ ctlCall = NoCall
    /\ ~is_open
    /\ is_open' = TRUE
    /\ session_start' = time
    /\ ctl_before_images' = snapshot
    /\ ctlCall' = CtlCallOf("on_door_open", FALSE, NoDetails)
    /\ UNCHANGED <<current_user, ctl_after_images, object_detector, avatar_emotion,
                   last_detected, inventories, inventory_file, known_users,
                   encodings_file>>

\* The door closes: simulate_door_close() calls on_door_close(timestamp);
\* what on_door_close raises is caught by _trigger_door_close
DoorCloses(snapshot, detections) ==
    LET r == _analyze_and_update_inventory(inventories, current_user, object_detector,
                                           ctl_before_images, snapshot, detections,
                                           avatar_emotion, clock)
    IN  /\ ctlCall = NoCall
        /\ is_open
        /\ is_open' = FALSE
        /\ ctl_after_images' = snapshot
        /\ inventories' = r.inventories
        /\ QtyOk(inventories')
        /\ inventory_file' = IF inventories' # inventories
                             THEN save_inventory(inventories') ELSE inventory_file
        /\ avatar_emotion' = r.emotion
        /\ ctlCall' = CtlCallOf("on_door_close", r.raised,
                                [outcome |-> r.outcome, before |-> ctl_before_images,
                                 after |-> snapshot, detections |-> detections,
                                 all_changes |-> r.all_changes,
                                 significant |-> r.significant,
                                 detected_items |-> r.detected_items])
        /\ UNCHANGED <<current_user, ctl_before_images, object_detector, last_detected,
                       known_users, encodings_file, session_start>>

\* detect_user()
DetectUser(face) ==
    LET r == recognize_user(known_users, encodings_file, tolerance, face.image, clock)
        outcome == IF ~face.captured THEN "None"
                   ELSE IF r.result.matched THEN "user" ELSE "guest"
    IN  /\ ctlCall = NoCall
        /\ known_users' = IF face.captured THEN r.users ELSE known_users
        /\ CountRecognized(known_users') <= MaxRecognized
        /\ encodings_file' = IF face.captured THEN r.file ELSE encodings_file
        /\ current_user' = IF outcome = "user" THEN r.result.id ELSE current_user
        /\ avatar_emotion' = IF face.captured THEN "enum" ELSE avatar_emotion
        /\ last_detected' = [outcome |-> outcome,
                             id |-> IF outcome = "user" THEN r.result.id ELSE 0]
        /\ ctlCall' = CtlCallOf("detect_user", FALSE, last_detected')
        /\ UNCHANGED <<ctl_before_images, ctl_after_images, object_detector,
                       inventories, inventory_file, is_open, session_start>>

\* enroll_new_user(name)
EnrollNewUser(face) ==
    LET user_id == Len(known_users) + 1
        r == enroll_user(known_users, user_id, face.image, clock)
        success == face.captured /\ r.ok
        said == speak("str")
    IN  /\ ctlCall = NoCall
        /\ known_users' = IF success THEN r.users ELSE known_users
        /\ CountEncodings(known_users') <= MaxEncodings
        /\ encodings_file' = IF success THEN save_encodings(known_users')
                             ELSE encodings_file
        /\ avatar_emotion' = IF success THEN said.emotion ELSE avatar_emotion
        /\ ctlCall' = CtlCallOf("enroll_new_user", success /\ said.raised,
                                [outcome |-> IF success THEN "enrolled" ELSE "failed",
                                 id |-> user_id])
        /\ UNCHANGED <<current_user, ctl_before_images, ctl_after_images,
                       object_detector, last_detected, inventories, inventory_file,
                       is_open, session_start>>

\* SmartFridgeController.__init__ in a directory without the model files
InitCtl ==
    /\ current_user = 0
    /\ ctl_before_images = EmptyDict
    /\ ctl_after_images = EmptyDict
    /\ object_detector = FALSE
    /\ avatar_emotion = "enum"
    /\ last_detected = NoDetails
    /\ ctlCall = NoCall

exceptCtl == <<clock, invCall, camVars, simulation_mode, last_event_time, time, pin,
               edge_pending, door_log, tolerance, faceCall, cmpVars, ioVars,
               cbVars, famVars>>

\* The door cycles of a session without face recognition
NextCycle ==
    \/ ReturnCtl /\ UNCHANGED exceptCtl
    \/ \E m \in BOOLEAN : Construct(m) /\ UNCHANGED exceptCtl
    \/ /\ ctlCall = NoCall
       /\ \E s \in CtlSnapshots : DoorOpens(s) /\ UNCHANGED exceptCtl
    \/ /\ ctlCall = NoCall
       /\ \E s \in CtlSnapshots, d \in ZoneDetections :
             DoorCloses(s, d) /\ UNCHANGED exceptCtl

\* The snapshots and the detections of a door cycle in which one item is added
EmptyShelf == [z \in Range(InteriorZones) |-> [i \in Columns |-> 0]]
FullShelf == [z \in Range(InteriorZones) |-> [i \in Columns |-> 255]]
OneApple == [z \in Range(InteriorZones) |-> <<[class |-> "apple", confidence |-> 90]>>]

\* The face the external camera sees when somebody is enrolled in a session
EnrolledFace == [captured |-> TRUE, image |-> <<0>>]

\* Users are enrolled, come and go, and put an apple in the fridge
NextSession ==
    \/ ReturnCtl /\ UNCHANGED exceptCtl
    \/ Construct(TRUE) /\ UNCHANGED exceptCtl
    \/ DoorOpens(EmptyShelf) /\ UNCHANGED exceptCtl
    \/ DoorCloses(FullShelf, OneApple) /\ UNCHANGED exceptCtl
    \/ /\ ctlCall = NoCall
       /\ \E f \in FaceCaptures : DetectUser(f) /\ UNCHANGED exceptCtl
    \/ EnrollNewUser(EnrolledFace) /\ UNCHANGED exceptCtl

\* Users are enrolled and removed
NextEnroll ==
    \/ Tick /\ ctlCall = NoCall /\ faceCall = NoCall /\ UNCHANGED <<faceVars, exceptFace>>
    \/ ReturnCtl /\ UNCHANGED exceptCtl
    \/ /\ ctlCall = NoCall /\ faceCall = NoCall
       /\ \E f \in FaceCaptures : EnrollNewUser(f) /\ UNCHANGED exceptCtl
    \/ /\ ctlCall = NoCall
       /\ \E u \in FaceUserIds : RemoveUser(u) /\ UNCHANGED <<clock, exceptFace>>
    \/ ctlCall = NoCall /\ ReturnFace /\ UNCHANGED <<clock, exceptFace>>

----------------------------------------------------------------------------
(* FamilyManager *)

MaxInvitations == 2     \* invitations created

\* datetime.utcnow(), in units of half the invitation lifetime
UtcTimes == 0..3

\* timedelta(days=7)
InvitationLifetime == 2

FamilyIds == {1}
Roles == {"member", "admin"}

\* The user table: user 1 sends the invitations, user 2 can be invited;
\* nobody@x is the email of no user
UserTable == { [id |-> 1, email |-> "a@x"], [id |-> 2, email |-> "b@x"] }
InviteeEmails == {"b@x", "nobody@x"}

\* secrets.token_urlsafe(32) for the n-th invitation: a token not used before
token_urlsafe(n) == n

\* The token arguments of process_invitation; 0 is the token of no invitation
Tokens == 0..MaxInvitations

\* FamilyInvitation.query.filter_by(token=token).first(): its row number, 0 for None
InvitationOf(invs, token) ==
    IF \E k \in DOMAIN invs : invs[k].token = token
    THEN CHOOSE k \in DOMAIN invs : invs[k].token = token
    ELSE 0

\* User.query.filter_by(email=email).first(): the user's id, 0 for None
UserByEmail(email) ==
    IF \E u \in UserTable : u.email = email
    THEN (CHOOSE u \in UserTable : u.email = email).id
    ELSE 0

\* invite_member(family_id, inviter_id, invitee_email, role): the new row
invite_member(invs, family_id, inviter_id, invitee_email, role, now) ==
    [family_id |-> family_id, inviter_id |-> inviter_id,
     invitee_email |-> invitee_email, token |-> token_urlsafe(Len(invs) + 1),
     expires_at |-> now + InvitationLifetime, status |-> "pending"]

\* process_invitation without the status test of line 85
process_invitation_any_status(invs, members, token, accept, now) ==
    LET k == InvitationOf(invs, token)
    IN  IF k = 0
        THEN [ok |-> FALSE, invitations |-> invs, members |-> members]
        ELSE IF now > invs[k].expires_at
        THEN [ok |-> FALSE, invitations |-> [invs EXCEPT ![k].status = "expired"],
              members |-> members]
        ELSE IF accept
        THEN LET user == UserByEmail(invs[k].invitee_email)
             IN  IF user = 0
                 THEN [ok |-> FALSE, invitations |-> invs, members |-> members]
                 ELSE [ok |-> TRUE,
                       invitations |-> [invs EXCEPT ![k].status = "accepted"],
                       members |-> Append(members,
                                      [family_id |-> invs[k].family_id,
                                       user_id |-> user, role |-> "member"])]
        ELSE [ok |-> TRUE, invitations |-> [invs EXCEPT ![k].status = "rejected"],
              members |-> members]

\* process_invitation(token, accept) at time now: the first element of the
\* returned pair and the two tables afterwards
process_invitation(invs, members, token, accept, now) ==
    LET k == InvitationOf(invs, token)
    IN  IF k = 0 \/ invs[k].status # "pending"
        THEN [ok |-> FALSE, invitations |-> invs, members |-> members]
        ELSE IF now > invs[k].expires_at
        THEN [ok |-> FALSE, invitations |-> [invs EXCEPT ![k].status = "expired"],
              members |-> members]
        ELSE IF accept
        THEN LET user == UserByEmail(invs[k].invitee_email)
             IN  IF user = 0
                 THEN [ok |-> FALSE, invitations |-> invs, members |-> members]
                 ELSE [ok |-> TRUE,
                       invitations |-> [invs EXCEPT ![k].status = "accepted"],
                       members |-> Append(members,
                                      [family_id |-> invs[k].family_id,
                                       user_id |-> user, role |-> "member"])]
        ELSE [ok |-> TRUE, invitations |-> [invs EXCEPT ![k].status = "rejected"],
              members |-> members]

FamCallOf(op, token, accept, ok) ==
    [op |-> op, token |-> token, accept |-> accept, ok |-> ok,
     old |-> invitations, oldMembers |-> family_members, at |-> utcnow]

InviteMember(family_id, inviter_id, invitee_email, role) ==
    LET row == invite_member(invitations, family_id, inviter_id, invitee_email,
                             role, utcnow)
    IN  /\ famCall = NoCall
        /\ Len(invitations) < MaxInvitations
        /\ invitations' = Append(invitations, row)
        /\ invited_as' = Put(invited_as, row.token, role)
        /\ famCall' = FamCallOf("invite_member", row.token, FALSE, TRUE)
        /\ UNCHANGED <<family_members, utcnow>>

ProcessInvitation(token, accept) ==
    LET r == process_invitation(invitations, family_members, token, accept, utcnow)
    IN  /\ famCall = NoCall
        /\ invitations' = r.invitations
        /\ family_members' = r.members
        /\ famCall' = FamCallOf("process_invitation", token, accept, r.ok)
        /\ UNCHANGED <<invited_as, utcnow>>

\* The call returns to its caller; the next call can be made.
ReturnFam ==
    /\ famCall # NoCall
    /\ famCall' = NoCall
    /\ UNCHANGED <<invitations, family_members, invited_as, utcnow>>

TickUtc ==
    /\ famCall = NoCall
    /\ utcnow + 1 \in UtcTimes
    /\ utcnow' = utcnow + 1
    /\ UNCHANGED <<invitations, family_members, invited_as, famCall>>

\* The tables of a new database
InitFam ==
    /\ invitations = <<>>
    /\ family_members = <<>>
    /\ invited_as = EmptyDict
    /\ utcnow = 0
    /\ famCall = NoCall

exceptFam == <<clock, invVars, camVars, doorVars, faceVars, cmpVars, ioVars,
               cbVars, ctlVars>>

NextFam ==
    \/ \E f \in FamilyIds, e \in InviteeEmails, r \in Roles :
          InviteMember(f, 1, e, r) /\ UNCHANGED exceptFam
    \/ \E t \in Tokens, a \in BOOLEAN : ProcessInvitation(t, a) /\ UNCHANGED exceptFam
    \/ ReturnFam /\ UNCHANGED exceptFam
    \/ TickUtc /\ UNCHANGED exceptFam

----------------------------------------------------------------------------
(* Specifications *)

\* Every component as constructed; a specification then runs one component.
\* Outside SpecDoor the sensor is a simulated one, outside SpecFace the
\* tolerance is the default.
Init ==
    /\ clock = 0
    /\ InitInv
    /\ InitCam
    /\ InitDoor
    /\ InitFace
    /\ InitCmp
    /\ InitIo
    /\ InitCb
    /\ InitCtl
    /\ InitFam

\* The inventory and the cameras are checked beside a door sensor in simulation
\* mode and a recognizer with the default tolerance; the door sensor beside a
\* recognizer with the default tolerance; the recognizer beside a simulated door.
InitQuiet == Init /\ simulation_mode = TRUE /\ tolerance = DefaultTolerance

InitDoorOnly == Init /\ tolerance = DefaultTolerance

InitFaceOnly == Init /\ simulation_mode = TRUE

SpecUsers == InitQuiet /\ [][NextUsers]_vars
SpecInv == InitQuiet /\ [][NextInv]_vars

SpecCam == InitQuiet /\ [][NextCam]_vars

SpecDoor == InitDoorOnly /\ [][NextDoor]_vars

SpecFace == InitFaceOnly /\ [][NextFace]_vars

SpecProfiles == InitFaceOnly /\ [][NextProfiles]_vars

SpecCmp == InitQuiet /\ [][NextCmp]_vars

\* The two stores on a disk whose reads and writes can fail
SpecIo == InitQuiet /\ [][NextIo]_vars

\* The sensor's callback lists, with callbacks that can raise
SpecCallbacks == InitQuiet /\ [][NextCb]_vars

\* The controller's door cycles, and its sessions with face recognition
SpecCycle == InitQuiet /\ [][NextCycle]_vars
SpecSession == InitQuiet /\ [][NextSession]_vars
SpecEnroll == InitQuiet /\ [][NextEnroll]_vars

\* Family invitations
SpecFam == InitQuiet /\ [][NextFam]_vars

\* The calling thread keeps running: every join ends after its timeout at the latest.
SpecCamFair == SpecCam /\ WF_vars(Aggregator /\ UNCHANGED exceptCam)

----------------------------------------------------------------------------
(* Claims about the inventory store, checked under SpecInv *)

Apple == [class |-> "apple"]
Milk  == [class |-> "milk"]

Labels(batch) == { batch[i].class : i \in DOMAIN batch }
Count(batch, label) == Cardinality({ i \in DOMAIN batch : batch[i].class = label })

IsUpdate == invCall.op = "update_from_detection"
OldRecords == RecordsOf(invCall.old, invCall.uid)
NewRecords == RecordsOf(inventories, invCall.uid)

\* C1: after update_from_detection, every item that was in the user's record
\* set before the call and is carried by no detection of the batch has no
\* record at all, whatever its prior quantity.
C1_VanishIfUndetected ==
    IsUpdate =>
        \A item \in DOMAIN OldRecords :
            item \notin Labels(invCall.batch) => item \notin DOMAIN NewRecords

\* C2: update_from_detection on a user whose record set is empty leaves
\* exactly one record per distinct class label of the batch, with quantity
\* the number of detections carrying that label.
C2_CountsFromEmpty ==
    (IsUpdate /\ OldRecords = EmptyDict) =>
        /\ DOMAIN NewRecords = Labels(invCall.batch)
        /\ \A label \in DOMAIN NewRecords :
              NewRecords[label].quantity = Count(invCall.batch, label)

C2_Witness ==
    /\ IsUpdate
    /\ OldRecords = EmptyDict
    /\ invCall.batch = <<Apple, Apple, Milk>>
    /\ NewRecords["apple"].quantity = 2
    /\ NewRecords["milk"].quantity = 1

\* C3 as claimed: every label already in the record set and present in the
\* batch ends with its prior quantity plus 1 and last_detected refreshed,
\* also when the label occurs more than once in the batch.
C3_PlusOne ==
    IsUpdate =>
        \A label \in DOMAIN OldRecords \cap Labels(invCall.batch) :
            /\ label \in DOMAIN NewRecords
            /\ NewRecords[label].quantity = OldRecords[label].quantity + 1
            /\ NewRecords[label].last_detected = clock

\* C3 as amended: every label already in the record set and present in the
\* batch ends with its prior quantity plus the number of detections of the
\* batch carrying it, and last_detected set to the time of the call.
C3_PlusCount ==
    IsUpdate =>
        \A label \in DOMAIN OldRecords \cap Labels(invCall.batch) :
            /\ label \in DOMAIN NewRecords
            /\ NewRecords[label].quantity =
                  OldRecords[label].quantity + Count(invCall.batch, label)
            /\ NewRecords[label].last_detected = clock

C3_Witness ==
    /\ IsUpdate
    /\ "apple" \in DOMAIN OldRecords
    /\ Count(invCall.batch, "apple") = 2
    /\ OldRecords["apple"].last_detected < clock
    /\ NewRecords["apple"].quantity = OldRecords["apple"].quantity + 2
    /\ NewRecords["apple"].last_detected = clock

\* C4: every stored record of every user has quantity >= 1, and a
\* remove_item that takes a quantity to 0 or below deletes the record.
C4_QuantityAtLeastOne ==
    /\ \A u \in DOMAIN inventories : \A item \in DOMAIN inventories[u] :
          inventories[u][item].quantity >= 1
    /\ (invCall.op = "remove_item" /\ invCall.item \in DOMAIN OldRecords
           /\ OldRecords[invCall.item].quantity - invCall.quantity <= 0)
          => invCall.item \notin DOMAIN NewRecords

C4_Witness ==
    /\ invCall.op = "remove_item"
    /\ invCall.item \in DOMAIN OldRecords
    /\ OldRecords[invCall.item].quantity = invCall.quantity
    /\ invCall.item \notin DOMAIN NewRecords
    /\ \E u \in DOMAIN inventories : DOMAIN inventories[u] # {}


----------------------------------------------------------------------------
(* Claims about capture_all_simultaneously *)

\* C5: the mapping capture_all_simultaneously returns has keys only for
\* registered, non-excluded zones whose capture succeeded, each with that
\* zone's frame; a zone whose capture failed (camera not opened, no frame read,
\* read raised) is absent, and every zone whose capture succeeded is present
\* whatever happened to its siblings.
C5_OnlySucceededZones ==
    camPc = "returned" =>
        /\ DOMAIN results \subseteq (Range(cameras) \ exclude_names)
        /\ \A z \in DOMAIN results : worker[z] = "done_frame" /\ results[z] = Frame(z)
        /\ \A z \in Range(cameras) : worker[z] = "done_none" => z \notin DOMAIN results
        /\ \A z \in Range(cameras) : worker[z] = "done_frame" => z \in DOMAIN results

\* A call with the face camera excluded has returned; one shelf zone failed
\* and is absent, its sibling succeeded and is present.
C5_Witness ==
    /\ camPc = "returned"
    /\ exclude_names # {}
    /\ \E failed, sibling \in Range(cameras) :
          /\ worker[failed] = "done_none"
          /\ failed \notin DOMAIN results
          /\ worker[sibling] = "done_frame"
          /\ sibling \in DOMAIN results

\* C6: capture_all_simultaneously always returns, whether or not its workers
\* finish, and the calling thread sits out at most one join timeout per worker
\* it started.
C6_AlwaysReturns ==
    /\ [](timeouts <= Len(threads))
    /\ ((camPc = "starting") ~> (camPc = "returned"))

\* The call has returned after a join timed out, with that worker still running.
C6_Witness ==
    /\ camPc = "returned"
    /\ timeouts >= 1
    /\ \E z \in Range(cameras) : worker[z] = "running"

----------------------------------------------------------------------------
(* Claims about the door cycle *)

\* C7: the callbacks are invoked in strict alternation starting with open:
\* the 1st, 3rd, ... invocation is on_door_open, the 2nd, 4th, ... on_door_close.
C7_StrictAlternation ==
    \A i \in DOMAIN door_log :
        door_log[i].cb = IF i % 2 = 1 THEN "on_door_open" ELSE "on_door_close"

----------------------------------------------------------------------------
(* Claims about recognize_user *)

IsRecognize == faceCall.op = "recognize_user"

\* The places <<profile, sample>> of the stored encodings, and their order of iteration
Places(users) ==
    UNION { { <<k, j>> : j \in DOMAIN users[k].face_encodings } : k \in DOMAIN users }

Before(p, q) == p[1] < q[1] \/ (p[1] = q[1] /\ p[2] < q[2])

DistanceAt(users, p, test_encoding) ==
    face_distance(users[p[1]].face_encodings[p[2]], test_encoding)

\* The minimum distance d over every stored encoding of every profile
MinDistance(users, test_encoding) ==
    LET ds == { DistanceAt(users, p, test_encoding) : p \in Places(users) }
    IN  CHOOSE d \in ds : \A e \in ds : d <= e

\* The first place, in the order of iteration, whose encoding is at the minimum distance
FirstAtMin(users, test_encoding) ==
    LET d == MinDistance(users, test_encoding)
        at == { p \in Places(users) : DistanceAt(users, p, test_encoding) = d }
    IN  CHOOSE p \in at : \A q \in at : q = p \/ Before(p, q)

\* The match the rule gives: the owner of the first encoding at the minimum
\* distance d, with confidence 1 - d
RuleMatch(users, test_encoding) ==
    [matched |-> TRUE,
     id |-> users[FirstAtMin(users, test_encoding)[1]].id,
     confidence |-> One - MinDistance(users, test_encoding)]

\* C8 as stated: recognize_user matches exactly when the minimum distance d of
\* the first detected face to the stored encodings is <= tolerance; it then
\* returns the owner of the first encoding at distance d with confidence
\* 1 - d, and otherwise None.
C8_MatchIffWithinTolerance ==
    IsRecognize =>
        IF faceCall.old = <<>> \/ faceCall.image = <<>>
        THEN faceCall.result = NoMatch
        ELSE IF MinDistance(faceCall.old, faceCall.image[1]) <= tolerance
             THEN faceCall.result = RuleMatch(faceCall.old, faceCall.image[1])
             ELSE faceCall.result = NoMatch

\* What recognize_user does: it matches exactly when the minimum distance d is
\* <= tolerance and below 1.0, the initial best_distance; it then returns the
\* owner of the first encoding at distance d with confidence 1 - d.
RecognizeRuleBelowOne ==
    IsRecognize =>
        IF faceCall.old = <<>> \/ faceCall.image = <<>>
        THEN faceCall.result = NoMatch
        ELSE IF /\ MinDistance(faceCall.old, faceCall.image[1]) <= tolerance
                /\ MinDistance(faceCall.old, faceCall.image[1]) < One
             THEN faceCall.result = RuleMatch(faceCall.old, faceCall.image[1])
             ELSE faceCall.result = NoMatch

\* enroll_user has just succeeded
IsEnrolled == faceCall.op = "enroll_user" /\ faceCall.ok

\* The result of recognize_user(image) called now, on the image just enrolled
RecognizedNow ==
    recognize_user(known_users, encodings_file, tolerance, faceCall.image, clock).result

\* The profiles holding an encoding identical to the image's first face
HoldersOf(users, image) ==
    { k \in DOMAIN users :
        \E j \in DOMAIN users[k].face_encodings : users[k].face_encodings[j] = image[1] }

\* C9 as stated: after enroll_user(id, name, image) succeeds, recognize_user on
\* the same image returns the profile with that id, with confidence > 0.
C9_RoundTrip ==
    IsEnrolled =>
        /\ RecognizedNow.matched
        /\ RecognizedNow.id = faceCall.user_id
        /\ RecognizedNow.confidence > 0

\* C9: after enroll_user(id, name, image) succeeds, recognize_user on the same
\* image returns, with confidence 1.0, the first profile in store order that
\* holds an encoding identical to the image's first face; that is the profile
\* just enrolled when no profile before it holds such an encoding.
C9_RoundTripFirstHolder ==
    IsEnrolled =>
        LET holders == HoldersOf(known_users, faceCall.image)
            first == CHOOSE k \in holders : \A h \in holders : k <= h
        IN  /\ RecognizedNow.matched
            /\ RecognizedNow.confidence = One
            /\ IndexOf(known_users, faceCall.user_id) \in holders
            /\ RecognizedNow.id = known_users[first].id
            /\ (first = IndexOf(known_users, faceCall.user_id)
                    => RecognizedNow.id = faceCall.user_id)

\* A second profile has just been enrolled from an image with two faces, the
\* first profile holds a different face, and recognition of the image returns
\* the new profile.
C9_Witness ==
    /\ IsEnrolled
    /\ Len(known_users) = 2
    /\ Len(faceCall.image) = 2
    /\ IndexOf(known_users, faceCall.user_id) = 2
    /\ HoldersOf(known_users, faceCall.image) = {2}
    /\ RecognizedNow.id = faceCall.user_id

\* C10: a recognize_user call that matches adds exactly 1 to the matched
\* profile's times_recognized, sets its last_seen to the time of the call,
\* leaves every other profile as it was and leaves the rewritten file equal to
\* the profiles in memory; a call that returns None leaves the profiles in
\* memory and the file as they were.
C10_RecognizeFrame ==
    IsRecognize =>
        IF faceCall.result.matched
        THEN /\ \E k \in DOMAIN faceCall.old :
                   /\ faceCall.old[k].id = faceCall.result.id
                   /\ known_users = [faceCall.old EXCEPT
                                        ![k].times_recognized = @ + 1,
                                        ![k].last_seen = clock]
             /\ encodings_file = known_users
        ELSE /\ known_users = faceCall.old
             /\ encodings_file = faceCall.oldFile

\* A recognition matched one of two profiles, last seen before this call, and
\* the file was rewritten.
C10_Witness ==
    /\ IsRecognize
    /\ faceCall.result.matched
    /\ Len(faceCall.old) = 2
    /\ \E k \in DOMAIN faceCall.old :
          /\ faceCall.old[k].id = faceCall.result.id
          /\ faceCall.old[k].last_seen < clock
          /\ known_users[k].last_seen = clock
    /\ encodings_file # faceCall.oldFile


----------------------------------------------------------------------------
(* Claims about the profile store *)

Ids(users) == { users[k].id : k \in DOMAIN users }

\* C11: every profile in known_users holds at least one face encoding, and an
\* add_face_sample call either appends the first detected face's encoding to
\* the profile it names, leaving the set of profiles as it was, or changes nothing.
C11_EveryProfileHasEncoding ==
    /\ \A k \in DOMAIN known_users : Len(known_users[k].face_encodings) >= 1
    /\ faceCall.op = "add_face_sample" =>
          /\ Ids(known_users) = Ids(faceCall.old)
          /\ IF faceCall.ok
             THEN \E k \in DOMAIN faceCall.old :
                     /\ faceCall.old[k].id = faceCall.user_id
                     /\ known_users = [faceCall.old EXCEPT
                                          ![k].face_encodings = Append(@, faceCall.image[1])]
             ELSE known_users = faceCall.old

\* add_face_sample has just given a profile its second encoding.
C11_Witness ==
    /\ faceCall.op = "add_face_sample"
    /\ faceCall.ok
    /\ \E k \in DOMAIN known_users :
          /\ known_users[k].id = faceCall.user_id
          /\ Len(known_users[k].face_encodings) = 2

\* C12: enroll_user on an image with no face returns False and leaves the
\* profiles in memory and the file as they were; on an image with faces it
\* returns True and the enrolled profile holds exactly one encoding, that of
\* the first detected face.
C12_EnrollFirstFaceOnly ==
    faceCall.op = "enroll_user" =>
        IF Len(faceCall.image) = 0
        THEN /\ ~faceCall.ok
             /\ known_users = faceCall.old
             /\ encodings_file = faceCall.oldFile
        ELSE /\ faceCall.ok
             /\ IndexOf(known_users, faceCall.user_id) # 0
             /\ known_users[IndexOf(known_users, faceCall.user_id)].face_encodings
                    = <<faceCall.image[1]>>

\* enroll_user has just succeeded on an image with two different faces.
C12_Witness ==
    /\ faceCall.op = "enroll_user"
    /\ faceCall.ok
    /\ Len(faceCall.image) = 2
    /\ faceCall.image[1] # faceCall.image[2]
    /\ known_users[IndexOf(known_users, faceCall.user_id)].face_encodings
           = <<faceCall.image[1]>>

\* The results that name the profile with this id
ResultsFor(res, id) == { n \in DOMAIN res : res[n].id = id }

\* C13: recognize_multiple_users returns exactly one result for each detected
\* face whose minimum distance to the stored encodings is <= tolerance, for
\* the profile the matching rule gives for that face, and none for the other
\* faces; each result adds 1 to its profile's times_recognized; the file is
\* rewritten only if there is a result.
C13_OneResultPerFaceWithinTolerance ==
    faceCall.op = "recognize_multiple_users" =>
        LET old == faceCall.old
            img == faceCall.image
            res == faceCall.result
            within == IF old = <<>> THEN {}
                      ELSE { i \in DOMAIN img : MinDistance(old, img[i]) <= tolerance }
        IN  /\ { res[n].face : n \in DOMAIN res } = within
            /\ Len(res) = Cardinality(within)
            /\ \A n \in DOMAIN res :
                  /\ res[n].id = RuleMatch(old, img[res[n].face]).id
                  /\ res[n].confidence = RuleMatch(old, img[res[n].face]).confidence
            /\ \A k \in DOMAIN old :
                  known_users[k].times_recognized =
                      old[k].times_recognized + Cardinality(ResultsFor(res, old[k].id))
            /\ encodings_file = IF res # <<>> THEN known_users ELSE faceCall.oldFile

\* What recognize_multiple_users does: as above, for the faces whose minimum
\* distance is <= tolerance and below 1.0, the initial best_distance.
RecognizeMultipleRuleBelowOne ==
    faceCall.op = "recognize_multiple_users" =>
        LET old == faceCall.old
            img == faceCall.image
            res == faceCall.result
            within == IF old = <<>> THEN {}
                      ELSE { i \in DOMAIN img : /\ MinDistance(old, img[i]) <= tolerance
                                                /\ MinDistance(old, img[i]) < One }
        IN  /\ { res[n].face : n \in DOMAIN res } = within
            /\ Len(res) = Cardinality(within)
            /\ \A n \in DOMAIN res :
                  /\ res[n].id = RuleMatch(old, img[res[n].face]).id
                  /\ res[n].confidence = RuleMatch(old, img[res[n].face]).confidence
            /\ \A k \in DOMAIN old :
                  known_users[k].times_recognized =
                      old[k].times_recognized + Cardinality(ResultsFor(res, old[k].id))
            /\ encodings_file = IF res # <<>> THEN known_users ELSE faceCall.oldFile

\* One profile has just been returned for both faces of an image.
C13_Witness ==
    /\ faceCall.op = "recognize_multiple_users"
    /\ Len(faceCall.result) = 2
    /\ faceCall.result[1].id = faceCall.result[2].id

----------------------------------------------------------------------------
(* Claims about the filter and the merge of change regions *)

IsMerge == cmpCall.op = "merge_overlapping_regions"
IsFilter == cmpCall.op = "filter_significant_changes"

\* The pixels a region's rectangle covers
Cells(c) == (c.x .. (c.x + c.width - 1)) \X (c.y .. (c.y + c.height - 1))

SameRect(c, d) ==
    c.x = d.x /\ c.y = d.y /\ c.width = d.width /\ c.height = d.height

\* intersection-area / min(areaA, areaB) is strictly greater than the threshold
OverlapAbove(c, d, overlap_threshold) ==
    Cardinality(Cells(c) \cap Cells(d)) * Full >
        overlap_threshold * Min(Cardinality(Cells(c)), Cardinality(Cells(d)))

\* Input region i is looked at before input region j: larger area first,
\* input order among equal areas
Precedes(changes, i, j) ==
    \/ Cardinality(Cells(changes[i])) > Cardinality(Cells(changes[j]))
    \/ Cardinality(Cells(changes[i])) = Cardinality(Cells(changes[j])) /\ i < j

\* The input regions that are kept: those that overlap no kept region looked
\* at before them by more than the threshold
Kept(changes, overlap_threshold) ==
    CHOOSE K \in SUBSET DOMAIN changes :
        \A i \in DOMAIN changes :
            i \in K <=> ~ \E j \in K : /\ Precedes(changes, j, i)
                                       /\ OverlapAbove(changes[i], changes[j], overlap_threshold)

\* The kept region that input region i is merged into (itself if kept), K being the kept ones
Target(changes, overlap_threshold, K, i) ==
    LET over == { j \in K : /\ Precedes(changes, j, i)
                            /\ OverlapAbove(changes[i], changes[j], overlap_threshold) }
    IN  IF i \in K THEN i
        ELSE CHOOSE j \in over : \A h \in over : h = j \/ Precedes(changes, j, h)

\* The place of kept region k in the output
Rank(changes, K, k) ==
    1 + Cardinality({ j \in K : Precedes(changes, j, k) })

\* C14: merge_overlapping_regions applied to its own output, with the same
\* threshold, returns the same regions in the same order with the same confidences.
C14_MergeIdempotent ==
    IsMerge => merge_overlapping_regions(cmpCall.result, cmpCall.param) = cmpCall.result

\* A merge has dropped a region and returned two regions of equal area.
C14_Witness ==
    /\ IsMerge
    /\ Len(cmpCall.result) < Len(cmpCall.changes)
    /\ \E m, n \in DOMAIN cmpCall.result :
          m < n /\ Area(cmpCall.result[m]) = Area(cmpCall.result[n])

\* C15: every output region of merge_overlapping_regions has the rectangle
\* (and zone and type) of a kept input region, whose area is at least that of
\* every region merged into it, and its confidence is the maximum over the
\* regions merged into it; two regions with one rectangle and confidences 0.4
\* and 0.9 give, at threshold 0.5, one region with confidence 0.9.
C15_LargestKeptMaxConfidence ==
    IsMerge =>
        LET changes == cmpCall.changes
            thr == cmpCall.param
            K == Kept(changes, thr)
        IN  /\ Len(cmpCall.result) = Cardinality(K)
            /\ \A k \in K :
                  LET out == cmpCall.result[Rank(changes, K, k)]
                      into == { i \in DOMAIN changes : Target(changes, thr, K, i) = k }
                  IN  /\ SameRect(out, changes[k])
                      /\ out.zone = changes[k].zone
                      /\ out.change_type = changes[k].change_type
                      /\ \A i \in into : Area(changes[k]) >= Area(changes[i])
                      /\ \E i \in into : out.confidence = changes[i].confidence
                      /\ \A i \in into : out.confidence >= changes[i].confidence
            /\ (/\ Len(changes) = 2
                /\ SameRect(changes[1], changes[2])
                /\ {changes[1].confidence, changes[2].confidence} = {24, 54}
                /\ thr = 30)
               => /\ Len(cmpCall.result) = 1
                  /\ cmpCall.result[1].confidence = 54

\* Two regions with one rectangle, the first with confidence 0.4 and the
\* second with 0.9, have been merged at threshold 0.5.
C15_Witness ==
    /\ IsMerge
    /\ cmpCall.param = 30
    /\ Len(cmpCall.changes) = 2
    /\ SameRect(cmpCall.changes[1], cmpCall.changes[2])
    /\ cmpCall.changes[1].confidence = 24
    /\ cmpCall.changes[2].confidence = 54
    /\ Len(cmpCall.result) = 1

C17_FilterExactSublist ==
    IsFilter =>
        LET changes == cmpCall.changes
            t == cmpCall.param
            keep == { i \in DOMAIN changes : changes[i].confidence >= t }
        IN  /\ Len(cmpCall.result) = Cardinality(keep)
            /\ \A i \in keep :
                  cmpCall.result[Cardinality({ j \in keep : j <= i })] = changes[i]
            /\ filter_significant_changes(cmpCall.result, t) = cmpCall.result

\* A filter has dropped a region and kept one whose confidence equals t.
C17_Witness ==
    /\ IsFilter
    /\ Len(cmpCall.result) >= 1
    /\ Len(cmpCall.result) < Len(cmpCall.changes)
    /\ \E n \in DOMAIN cmpCall.result : cmpCall.result[n].confidence = cmpCall.param

----------------------------------------------------------------------------
(* Claims about compare_images *)

IsCompare == cmpCall.op = "compare_images"

ValidRegion(c) ==
    /\ c.confidence >= 0
    /\ c.confidence <= Full
    /\ c.change_type \in {"addition", "removal"}

\* The mean intensity inside c's rectangle is strictly higher in after than in before
BrighterAfter(c, before, after) ==
    LET inside == { i \in Columns : i - 1 >= c.x /\ i - 1 < c.x + c.width }
        total(image) == roi_sum(cvtColor(image), c.x + 1, c.x + c.width)
    IN  /\ inside # {}
        /\ total(after) * Cardinality(inside) > total(before) * Cardinality(inside)

\* C18: every region compare_images returns, and every region the filter or
\* the merge returns when given such regions, has a confidence in [0, 1] and
\* the type addition or removal, addition exactly when the mean intensity
\* inside its rectangle is strictly higher after than before.
C18_RegionsValid ==
    /\ IsCompare =>
          \A n \in DOMAIN cmpCall.result :
              /\ ValidRegion(cmpCall.result[n])
              /\ cmpCall.result[n].change_type = "addition"
                     <=> BrighterAfter(cmpCall.result[n], cmpCall.changes[1],
                                       cmpCall.changes[2])
    /\ (/\ cmpCall.op \in {"filter_significant_changes", "merge_overlapping_regions"}
        /\ cmpCall.source # FromCaller) =>
          \A n \in DOMAIN cmpCall.result :
              /\ ValidRegion(cmpCall.result[n])
              /\ cmpCall.result[n].change_type = "addition"
                     <=> BrighterAfter(cmpCall.result[n], cmpCall.source.before,
                                       cmpCall.source.after)

\* The filter has kept a region that compare_images returned, an addition
\* with a confidence strictly between 0 and 1.
C18_Witness ==
    /\ cmpCall.op = "filter_significant_changes"
    /\ cmpCall.source # FromCaller
    /\ \E n \in DOMAIN cmpCall.result :
          /\ cmpCall.result[n].change_type = "addition"
          /\ cmpCall.result[n].confidence > 0
          /\ cmpCall.result[n].confidence < Full

\* C19: compare_images returns no region for two identical frames, and
\* compare_all_zones reports no region for every zone whose two frames are identical.
C19_IdenticalFramesNoChange ==
    /\ (IsCompare /\ cmpCall.changes[1] = cmpCall.changes[2]) => cmpCall.result = <<>>
    /\ cmpCall.op = "compare_all_zones" =>
          \A zone \in (DOMAIN cmpCall.changes[1]) \cap (DOMAIN cmpCall.changes[2]) :
              cmpCall.changes[1][zone] = cmpCall.changes[2][zone]
                  => cmpCall.result[zone] = <<>>

\* compare_all_zones has compared two zones at diff_threshold 0: one with
\* identical frames that are not black, one with a change.
C19_Witness ==
    /\ cmpCall.op = "compare_all_zones"
    /\ cmpCall.param.diff_threshold = 0
    /\ \E same, other \in DOMAIN cmpCall.result :
          /\ cmpCall.changes[1][same] = cmpCall.changes[2][same]
          /\ \E i \in Columns : cmpCall.changes[1][same][i] # 0
          /\ cmpCall.result[same] = <<>>
          /\ cmpCall.result[other] # <<>>

\* C20: persistence failures never escape the core: when a write or a read of
\* the face-profile store or of the inventory store fails, the operation
\* (enroll_user, recognize_user, remove_user, add_item, remove_item,
\* update_from_detection, the loading of a store at construction) does not
\* raise to its caller, and memory holds what the completed operation leaves.
C20_PersistenceFailuresContained ==
    ioCall # NoCall =>
        /\ ~ioCall.raised
        /\ inventories = ioCall.inventories
        /\ known_users = ioCall.known_users

\* An update_from_detection that raised part-way: memory holds neither the
\* dict before the call nor the dict of the completed update
C20_Witness ==
    /\ ioCall # NoCall
    /\ ioCall.op = "update_from_detection"
    /\ ioCall.raised
    /\ inventories # ioCall.inventories

\* The face-profile store keeps the contract: save_encodings and
\* load_encodings catch what the disk raises
FaceStoreFailuresContained ==
    (ioCall # NoCall /\ ioCall.store = "faces") =>
        /\ ~ioCall.raised
        /\ known_users = ioCall.known_users

\* add_item and remove_item change the dict before they write: what raises
\* leaves the completed operation in memory
InventoryMemoryAfterRaise ==
    (ioCall # NoCall /\ ioCall.op \in {"add_item", "remove_item"}) =>
        inventories = ioCall.inventories

----------------------------------------------------------------------------
(* Claims about the camera capture, continued *)

\* C27: the zone-to-frame mapping returned by capture_all_simultaneously is
\* never modified after the call has returned, even when a worker outlived
\* its join timeout and completes its capture later.
C27_ReturnedMappingFrozen ==
    [][(camPc = "returned" /\ camPc' = "returned") => results' = results]_vars

\* The call has returned while a worker it started is still running
C27_Witness ==
    /\ camPc = "returned"
    /\ timeouts > 0
    /\ \E z \in Range(cameras) : worker[z] = "running"

----------------------------------------------------------------------------
(* Claims about the sensor's callbacks *)

\* The callback list an operation of the sensor goes through
CallbacksOf(op) ==
    IF op = "simulate_door_open" THEN on_door_open_callbacks
    ELSE on_door_close_callbacks

\* C25: when a door event fires, every callback registered for it is invoked
\* exactly once, in registration order, even if an earlier callback raises;
\* the exception does not reach the caller of simulate_door_open or
\* simulate_door_close, and is_open already holds the new door state when
\* the callbacks run.
C25_CallbackIsolation ==
    (cbCall # NoCall /\ cbCall.fired) =>
        /\ Len(cbCall.invoked) = Len(CallbacksOf(cbCall.op))
        /\ \A i \in DOMAIN cbCall.invoked :
              /\ cbCall.invoked[i].index = i
              /\ cbCall.invoked[i].is_open = (cbCall.op = "simulate_door_open")
        /\ ~cbCall.raised
        /\ is_open = (cbCall.op = "simulate_door_open")
        /\ is_open # cbCall.old

\* A door event with two callbacks of which the first one raised
C25_Witness ==
    /\ cbCall # NoCall
    /\ cbCall.fired
    /\ Len(cbCall.invoked) = 2
    /\ cbCall.invoked[1].raised
    /\ ~cbCall.invoked[2].raised

----------------------------------------------------------------------------
(* Claims about family invitations *)

IsProcess == famCall # NoCall /\ famCall.op = "process_invitation"

\* The row of the call's token before the call, 0 when there is none
Row == InvitationOf(famCall.old, famCall.token)

\* C23: when an invitation created by invite_member(..., role=r) is accepted
\* through process_invitation, the family member that is created has role r.
C23_MemberHasInvitedRole ==
    (IsProcess /\ famCall.ok /\ famCall.accept) =>
        /\ Len(family_members) = Len(famCall.oldMembers) + 1
        /\ family_members[Len(family_members)].role = invited_as[famCall.token]

\* An invitation made with role 'admin' has been accepted
C23_Witness ==
    /\ IsProcess
    /\ famCall.ok
    /\ famCall.accept
    /\ invited_as[famCall.token] = "admin"

\* The member that is created has role 'member', whatever role was asked for
AcceptedAsMember ==
    (IsProcess /\ famCall.ok /\ famCall.accept) =>
        /\ Len(family_members) = Len(famCall.oldMembers) + 1
        /\ family_members[Len(family_members)].role = "member"

C26_WitnessExpired ==
    /\ IsProcess
    /\ Row # 0
    /\ famCall.old[Row].status = "pending"
    /\ invitations[Row].status = "expired"
    /\ famCall.accept

\* ... and on a pending invitation for an email that no user has
C26_WitnessNoUser ==
    /\ IsProcess
    /\ Row # 0
    /\ famCall.old[Row].status = "pending"
    /\ famCall.at <= famCall.old[Row].expires_at
    /\ famCall.accept
    /\ UserByEmail(famCall.old[Row].invitee_email) = 0

----------------------------------------------------------------------------
(* Claims about the controller's door cycle *)

IsDoorOpen == ctlCall # NoCall /\ ctlCall.op = "on_door_open"
IsDoorClose == ctlCall # NoCall /\ ctlCall.op = "on_door_close"

\* C21: if the object-detection model is unavailable (the controller holds no
\* detector), detection over the changed regions yields an empty list, and a
\* door cycle (open, then close) leaves every user's inventory as it was,
\* whatever the frames captured before and after.
C21_NoDetectorNoUpdate ==
    /\ (IsDoorOpen /\ ~ctlCall.detector) => inventories = ctlCall.old
    /\ (IsDoorClose /\ ~ctlCall.detector) =>
          /\ ctlCall.details.detected_items = <<>>
          /\ inventories = ctlCall.old

\* The door closes on a filled shelf, the controller holds no detector, and
\* the model, had it been loaded, would have detected something
C21_Witness ==
    /\ IsDoorClose
    /\ ~ctlCall.detector
    /\ ctlCall.details.significant # <<>>
    /\ \E z \in DOMAIN ctlCall.details.detections :
          \E k \in DOMAIN ctlCall.details.detections[z] :
             ctlCall.details.detections[z][k].confidence > AutoAddConfidence

\* C22: no-match outcomes are results, not errors: on_door_close runs to
\* completion without raising when the before or the after image set is
\* empty, when no change region is found and when no item is detected in the
\* changed regions; detect_user returns a guest result without raising when
\* no face is recognized.
C22_NoMatchIsNotAnError ==
    /\ (IsDoorClose /\ ctlCall.details.outcome \in
                          {"missing_images", "no_changes", "no_items"}) =>
          ~ctlCall.raised
    /\ (ctlCall # NoCall /\ ctlCall.op = "detect_user"
          /\ ctlCall.details.outcome = "guest") => ~ctlCall.raised

\* The door closes on a shelf that has not changed, and on_door_close raises
C22_Witness ==
    /\ IsDoorClose
    /\ ctlCall.details.outcome = "no_changes"
    /\ ctlCall.raised

\* Of the no-match cases, the empty image set is the one that does not raise
MissingImagesIsNotAnError ==
    (IsDoorClose /\ ctlCall.details.outcome = "missing_images") =>
        (~ctlCall.raised /\ inventories = ctlCall.old)

\* The quantity stored for a user and an item, 0 when there is no record
Qty(inv, uid, item) ==
    IF uid \in DOMAIN inv /\ item \in DOMAIN inv[uid] THEN inv[uid][item].quantity
    ELSE 0

\* The quantity stored for an item over all users
RECURSIVE QtyOverUsers(_, _, _)
QtyOverUsers(inv, uids, item) ==
    IF uids = {} THEN 0
    ELSE LET u == CHOOSE x \in uids : TRUE
         IN  Qty(inv, u, item) + QtyOverUsers(inv, uids \ {u}, item)

\* The zones with a change region of confidence 0.6 or more
SignificantZones ==
    { ctlCall.details.all_changes[k].zone : k \in
        { j \in DOMAIN ctlCall.details.all_changes :
            ctlCall.details.all_changes[j].confidence >= SignificantConfidence } }

\* The detections of an item with confidence above 0.8 in such a zone
Counted(item) ==
    { <<z, k>> \in Range(InteriorZones) \X (1..2) :
        /\ ctlCall.detector
        /\ z \in SignificantZones
        /\ z \in DOMAIN ctlCall.details.after
        /\ k \in DOMAIN ctlCall.details.detections[z]
        /\ ctlCall.details.detections[z][k].class = item
        /\ ctlCall.details.detections[z][k].confidence > AutoAddConfidence }

----------------------------------------------------------------------------
(* Claims about enrolment and attribution in the controller *)

IsEnrollNewUser == ctlCall # NoCall /\ ctlCall.op = "enroll_new_user"

\* C28: after any sequence of enroll_new_user and remove_user calls, each
\* enroll_new_user that enrols assigns a user id that was not enrolled when
\* it was called, the number of stored profiles grows by exactly one, and
\* every profile stored before the call is still stored as it was.
C28_EnrollAssignsFreshId ==
    (IsEnrollNewUser /\ ctlCall.details.outcome = "enrolled") =>
        /\ ctlCall.details.id \notin Ids(ctlCall.oldUsers)
        /\ Len(known_users) = Len(ctlCall.oldUsers) + 1
        /\ \A k \in DOMAIN ctlCall.oldUsers :
              \E j \in DOMAIN known_users : known_users[j] = ctlCall.oldUsers[k]

\* An enrolment after a removal is given the id of a profile that is stored,
\* and the number of profiles is what it was
C28_Witness ==
    /\ IsEnrollNewUser
    /\ ctlCall.details.outcome = "enrolled"
    /\ ctlCall.details.id \in Ids(ctlCall.oldUsers)
    /\ Len(known_users) = Len(ctlCall.oldUsers)

\* Without remove_user the ids are 1, 2, ... and every enrolment is fresh:
\* the id assigned is one more than the number of profiles
EnrollIdIsCountPlusOne ==
    IsEnrollNewUser => ctlCall.details.id = Len(ctlCall.oldUsers) + 1

\* C29: the inventory updates of a door cycle are attributed to the outcome
\* of the most recent detect_user call: when that call gave a guest result
\* the updates are stored under user id 0, and when it recognized a user,
\* under that user's id; no other user's records change.
C29_AttributedToLastDetection ==
    (IsDoorClose /\ ctlCall.last.outcome \in {"guest", "user"}) =>
        \A uid \in DOMAIN inventories \cup DOMAIN ctlCall.old :
            uid # ToString(ctlCall.last.id) =>
                RecordsOf(inventories, uid) = RecordsOf(ctlCall.old, uid)

\* The last detect_user gave a guest result, a user had been recognized
\* before, and the door cycle stores an item under that user's id
C29_Witness ==
    /\ IsDoorClose
    /\ ctlCall.last.outcome = "guest"
    /\ ctlCall.user # 0
    /\ RecordsOf(inventories, ToString(ctlCall.user))
          # RecordsOf(ctlCall.old, ToString(ctlCall.user))

\* When the last detect_user recognized a user, the updates are that user's
RecognizedUserIsAttributed ==
    (IsDoorClose /\ ctlCall.last.outcome = "user") =>
        \A uid \in DOMAIN inventories \cup DOMAIN ctlCall.old :
            uid # ToString(ctlCall.last.id) =>
                RecordsOf(inventories, uid) = RecordsOf(ctlCall.old, uid)

----------------------------------------------------------------------------
(* Claims about the users of the inventory *)

\* The user a user_id argument names: the int itself, or the int its digits
\* spell; the user a key of the inventories dict belongs to (-1: nobody's)
UserOf(user_id) ==
    IF user_id.type = "int" THEN user_id.n
    ELSE CHOOSE n \in 0..9 : ToString(n) = user_id.s
UserOfKey(k) ==
    IF \E n \in 0..9 : ToString(n) = k THEN CHOOSE n \in 0..9 : ToString(n) = k
    ELSE -1

\* The InventoryManager call c made again on the dict it found, the user
\* given as user_id
Redo(c, user_id) ==
    CASE c.op = "add_item" -> add_item(c.old, user_id, c.item, c.quantity, c.at)
      [] c.op = "remove_item" -> remove_item(c.old, user_id, c.item, c.quantity)
      [] c.op = "clear_inventory" -> clear_inventory(c.old, user_id)
      [] c.op = "update_from_detection" ->
            update_from_detection(c.old, user_id, c.batch, c.at)
      [] c.op = "update_expiry_date" ->
            update_expiry_date(c.old, user_id, c.item, c.quantity)

\* C30: every InventoryManager mutation for a user (add_item, remove_item,
\* update_from_detection, clear_inventory, update_expiry_date) leaves the
\* record set of every other user as it was, and the call made with the int
\* and with the str form of the same user id addresses the same record set:
\* it gives the same inventories.
C30_PerUserIsolation ==
    invCall # NoCall =>
        /\ \A k \in DOMAIN inventories \cup DOMAIN invCall.old :
              UserOfKey(k) # UserOf(invCall.user_id) =>
                 /\ k \in DOMAIN invCall.old
                 /\ k \in DOMAIN inventories
                 /\ inventories[k] = invCall.old[k]
        /\ \A a \in UserIds :
              UserOf(a) = UserOf(invCall.user_id) =>
                 Redo(invCall, a) = inventories

\* update_expiry_date is called with the int form of a user's id, another
\* user has records, and the date changes
C30_Witness ==
    /\ invCall # NoCall
    /\ invCall.op = "update_expiry_date"
    /\ invCall.user_id.type = "int"
    /\ inventories # invCall.old
    /\ \E k \in DOMAIN invCall.old :
          /\ UserOfKey(k) # UserOf(invCall.user_id)
          /\ DOMAIN invCall.old[k] # {}

\* update_from_detection changes a user's records beside another user's
C30_WitnessDetection ==
    /\ invCall # NoCall
    /\ invCall.op = "update_from_detection"
    /\ inventories # invCall.old
    /\ \E k \in DOMAIN invCall.old :
          /\ UserOfKey(k) # UserOf(invCall.user_id)
          /\ DOMAIN invCall.old[k] # {}

====
